---- MODULE Spec2Model ----
(***************************************************************************)
(* Model of the lead parser (PrivetAI/leads-tg-fb): the scan cycles of     *)
(* src/main.py (process_cycle, process_facebook_cycle), the store of       *)
(* src/db/repository.py, the Telegram adapter of src/telegram/userbot.py,  *)
(* the Facebook scraper loop of src/facebook/scraper.py and the batcher of *)
(* src/processing/analyzer.py.                                             *)
(*                                                                         *)
(* A cycle is a coroutine: every action below is the code between two      *)
(* awaits (the await's result is the action's input).  process_cycle only  *)
(* touches chat_state and messages, process_facebook_cycle only touches    *)
(* the facebook_* tables, so a behaviour exercises one platform (focus).   *)
(***************************************************************************)
EXTENDS Integers, Sequences, FiniteSets, TLC

VARIABLES
    focus,          \* platform whose cycles this deployment triggers
    batcher,        \* "code": analyze_messages_batch of analyzer.py; "stub": a test double
    tg_top,         \* Telegram: id of the newest message of each chat (ids 1..top exist)
    tg_old,         \* Telegram: messages with id <= tg_old[c] were seen to be older than 24 hours
    chat_state,     \* table chat_state: chat_id -> last_message_id, or None
    msg_rows,       \* table messages: the rows of the message watch, counted by verdict
    fb_top,         \* Facebook: id of the newest post of the group's feed
    fb_processed,   \* table facebook_processed_posts: rows <<group_id, post_id>>, post_id the key
    fb_group_state, \* table facebook_group_state: number of scans recorded (0 = no row)
    fb_scraper,     \* main.fb_scraper: "none", "started", or "failed" (start() returned False)
    slots,          \* the coroutine slots in which a cycle can run
    cy,             \* per slot, the locals of process_cycle / process_facebook_cycle
    cycles,         \* number of cycles started
    watch,          \* the source item that is followed through the cycles
    notif,          \* number of leads notifications that included watch
    commit_failed,  \* a store write of a commit phase has failed after a leads notification
    reset_done,     \* the operator has reset the watermarks
    faults,         \* number of failures of the environment so far
    ab,             \* one call of analyze_messages_batch, chunk by chunk
    exclude_words,  \* config.exclude_words, loaded at startup
    fn,             \* the Content Filter applied to one list: input and outputs
    sg,             \* one call of scrape_group, iteration by iteration
    is_paused,      \* bot.is_paused ("tg") and bot.is_facebook_paused ("fb")
    reset_count,    \* what reset_chat_states() returned, while no cycle has
                    \* started since (else None)
    call,           \* the repository call made last on the processed-posts table
    llm_provider    \* config.llm_provider: "gemini" or "openrouter"

vars == <<focus, batcher, tg_top, tg_old, chat_state, msg_rows,
          fb_top, fb_processed, fb_group_state, fb_scraper,
          slots, cy, cycles, watch, notif, commit_failed, reset_done, faults, ab,
          exclude_words, fn, sg,
          is_paused, reset_count, call, llm_provider>>

----------------------------------------------------------------------------
(* Bounds of the model *)

MaxMsgId == 3
MaxPosts == 3
MaxCycles == 2
MaxFaults == 1
MaxRows == 2
MaxTexts == 3
MaxLen == 3
MaxFeed == 4

(* Program constants, scaled down *)

\* userbot.py:129  limit=100
FetchLimit == 2
\* analyzer.py:169  batch_size: int = 100
BatchSize == 1
\* analyzer.py:170  max_parallel: int = 3
MaxParallel == 2
\* config.py:53  posts_per_group (default 20)
PostsPerGroup == 2
\* analyzer.py:93  max_retries: int = 3
MaxRetries == 3
MaxScrolls == 3
MaxEmptyScrolls == 2
HashPrefix == 1

Chats == {1, 2}
Group == 1
\* get_last_message_id returns None: the chat has no row in chat_state
None == -1
\* the cycle has not read the watermark of the chat
Unread == -2

Min(a, b) == IF a < b THEN a ELSE b
Max(a, b) == IF a < b THEN b ELSE a

RECURSIVE SeqMax(_)
SeqMax(s) == IF Len(s) = 1 THEN s[1] ELSE Max(s[1], SeqMax(Tail(s)))

Range(s) == {s[i] : i \in 1..Len(s)}

----------------------------------------------------------------------------
(* Source items.  A Telegram message is <<chat_id, message_id>>; a Facebook *)
(* post is <<FbChat, post_id>>.                                             *)

FbChat == 0
TgItems == Chats \X (1..MaxMsgId)
FbItems == {FbChat} \X (1..MaxPosts)
Items == TgItems \cup FbItems
Slots == {1, 2}
\* no item is followed
NoItem == <<-1, -1>>

\* messages.is_lead of one row: NULL until update_message_lead_status writes it
NoRows == [null |-> 0, lead |-> 0]

IdleCy == [pc |-> "idle", platform |-> "none", peers |-> <<>>, i |-> 0,
           read |-> [c \in Chats |-> Unread], chats_to_update |-> <<>>,
           all_messages |-> <<>>, fetched |-> {}, processed_ids |-> {},
           new_posts |-> <<>>, filtered |-> <<>>, results |-> {},
           success |-> TRUE, chunk_failed |-> FALSE, leads |-> <<>>,
           leads_sent |-> 0, stats |-> 0, stats_args |-> <<>>,
           wrote |-> FALSE, outcome |-> "none",
           failed_peers |-> {}, undelivered |-> {}]

----------------------------------------------------------------------------
(* src/telegram/userbot.py *)

\* an iteration that starts at the newest message and ignores min_id
IterMessagesAny(top, min_id, limit) ==
    [j \in 1..Min(limit, top) |-> top - j + 1]

\* iter_messages(entity, min_id, limit): newest first, ids > min_id, at most limit
IterMessages(top, min_id, limit) ==
    [j \in 1..Min(limit, top - min_id) |-> top - j + 1]

\* get_new_messages: the messages parsed before the iteration ended; an error
\* in the middle of the iteration is caught and the messages read so far are
\* returned (read = number of messages read before the error, or all of them)
GetNewMessages(c, min_id, read) ==
    SubSeq(IterMessages(tg_top[c], min_id, FetchLimit), 1, read)

----------------------------------------------------------------------------
(* src/processing/filter.py, src/main.py:85-94 *)

\* A text is a sequence of characters.  The texts of the messages and posts
\* that the sources hold: some carry an exclusion word (in either case),
\* <<1, 2>> and <<2, 3>> carry the same text, <<2, 1>> carries it with a
\* trailing blank, <<1, 3>> in upper case, the others differ
TextOf(item) ==
    CASE item = <<1, 1>> -> <<"A", "b">>
      [] item = <<1, 2>> -> <<"a">>
      [] item = <<1, 3>> -> <<"A">>
      [] item = <<2, 1>> -> <<"a", " ">>
      [] item = <<2, 2>> -> <<"B">>
      [] item = <<2, 3>> -> <<"a">>
      [] item = <<FbChat, 1>> -> <<"a">>
      [] item = <<FbChat, 2>> -> <<"b", "a">>
      [] item = <<FbChat, 3>> -> <<"A", "a">>
      [] OTHER -> [j \in 1..(item[1] + item[2]) |-> "c"]

\* str.lower()
LowerChar(ch) ==
    CASE ch = "A" -> "a" [] ch = "B" -> "b" [] ch = "Q" -> "q" [] ch = "R" -> "r"
      [] OTHER -> ch
Lower(text) == [j \in 1..Len(text) |-> LowerChar(text[j])]

\* word in text
Contains(text, word) ==
    \E j \in 0..(Len(text) - Len(word)) : SubSeq(text, j + 1, j + Len(word)) = word

\* config.yaml filter.exclude_words, and config.exclude_words
YamlExcludeWords == {<<"B">>}

\* a configuration that keeps the words as they are written
ConfigExcludeWordsRaw(yaml) == yaml

\* config.py:44  exclude_words = [w.lower() for w in yaml words]
ConfigExcludeWords(yaml) == {Lower(w) : w \in yaml}

ExcludeWords == ConfigExcludeWords(YamlExcludeWords)

\* the exclusion test of filter_messages: some exclude word occurs in text.lower()
Excluded(item) == \E word \in exclude_words : Contains(Lower(TextOf(item)), word)

FilterMessages(msgs) == SelectSeq(msgs, LAMBDA m : ~Excluded(m))

RECURSIVE DedupFrom(_, _)
DedupFrom(msgs, seen_texts) ==
    IF msgs = <<>> THEN <<>>
    ELSE IF TextOf(Head(msgs)) \in seen_texts
         THEN DedupFrom(Tail(msgs), seen_texts)
         ELSE <<Head(msgs)>> \o DedupFrom(Tail(msgs), seen_texts \cup {TextOf(Head(msgs))})

Deduplicate(msgs) == DedupFrom(msgs, {})

\* scraper.py:389-396  the locals of scrape_group before its loop; feed is the
\* group's page, newest article first, loaded the number of articles that the
\* page shows, parsed the posts that _parse_article_fast has returned so far
IdleSg == [pc |-> "idle", feed |-> <<>>, processed_ids |-> {}, limit_per_group |-> 0,
           loaded |-> 0, parsed_count |-> 0, posts |-> <<>>, seen_texts |-> {},
           posts_found |-> 0, scroll_attempts |-> 0, consecutive_empty |-> 0,
           hit_processed |-> FALSE, parsed |-> <<>>, scrolls |-> 0,
           scrolls_at_hit |-> 0]

\* a fingerprint that is the whole text
TextHashWhole(text) == text

\* hash(post.text[:100]): the fingerprint of a post is the prefix of its text
\* (the hash itself is taken to be free of collisions)
TextHash(text) == SubSeq(text, 1, Min(Len(text), HashPrefix))

\* scraper.py:407-432  for article in new_articles: the articles are parsed in
\* their order until the limit is reached or a processed post is met; an
\* article for which _parse_article_fast returns nothing (post_id 0) is skipped
RECURSIVE ParseArticles(_, _)
ParseArticles(new_articles, st) ==
    IF new_articles = <<>> \/ st.posts_found >= st.limit_per_group \/ st.hit_processed
    THEN st
    ELSE LET post == Head(new_articles)
             seen == [st EXCEPT !.parsed = Append(@, post)]
         IN  IF post.post_id = 0 THEN ParseArticles(Tail(new_articles), st)
             ELSE IF post.post_id \in st.processed_ids
             THEN [seen EXCEPT !.hit_processed = TRUE, !.scrolls_at_hit = st.scrolls]
             ELSE IF TextHash(post.text) \in st.seen_texts
             THEN ParseArticles(Tail(new_articles), seen)
             ELSE ParseArticles(Tail(new_articles),
                    [seen EXCEPT !.seen_texts = @ \cup {TextHash(post.text)},
                                 !.posts = Append(@, post),
                                 !.posts_found = @ + 1])

IdleFn == [op |-> "none", yaml |-> {}, input |-> <<>>, filtered |-> <<>>,
           deduplicated |-> <<>>]

----------------------------------------------------------------------------
(* src/db/repository.py *)

\* Repository.get_last_message_id
GetLastMessageId(c) == chat_state[c]

\* an update that is acknowledged and not stored
UpdateLastMessageIdDropped(cs, c, message_id) == cs

\* Repository.update_last_message_id: the row is overwritten, or created
UpdateLastMessageId(cs, c, message_id) == [cs EXCEPT ![c] = message_id]

\* the first k updates of the commit loop of process_cycle
RECURSIVE UpdateChats(_, _, _)
UpdateChats(cs, updates, k) ==
    IF k = 0 THEN cs
    ELSE UpdateChats(UpdateLastMessageId(cs, updates[1][1], updates[1][2]),
                     Tail(updates), k - 1)

\* Repository.save_message: one new row, its verdict NULL
SaveMessage(rows, msg) == IF msg = watch THEN [rows EXCEPT !.null = @ + 1] ELSE rows

\* the first k saves of the loop of process_cycle
RECURSIVE SaveMessages(_, _, _)
SaveMessages(rows, msgs, k) ==
    IF k = 0 THEN rows
    ELSE SaveMessages(SaveMessage(rows, Head(msgs)), Tail(msgs), k - 1)

\* Repository.update_message_lead_status(db_msg.id, True, ...): the row saved
\* by this cycle gets its verdict
UpdateMessageLeadStatus(rows, msg) ==
    IF msg = watch THEN [null |-> rows.null - 1, lead |-> rows.lead + 1] ELSE rows

\* the first k verdict writes of the loop of process_cycle
RECURSIVE UpdateLeadStatus(_, _, _)
UpdateLeadStatus(rows, leads, k) ==
    IF k = 0 THEN rows
    ELSE UpdateLeadStatus(UpdateMessageLeadStatus(rows, Head(leads)), Tail(leads), k - 1)

\* a lookup that finds no record
IsFacebookPostProcessedNever(processed, post_id) == FALSE

\* Repository.is_facebook_post_processed
IsFacebookPostProcessed(processed, post_id) == \E row \in processed : row[2] = post_id

\* Repository.update_facebook_group_state: last_scan_time is overwritten, or the row created
UpdateFacebookGroupState(gs, scan_time) == scan_time

\* no call was made on the table yet
IdleCall == [op |-> "none", posts |-> <<>>, before |-> {}]

\* Repository.mark_facebook_post_processed without its check (the row is added anyway)
MarkFacebookPostProcessedUnchecked(processed, post_id, group_id) ==
    processed \cup {<<group_id, post_id>>}

\* Repository.mark_facebook_post_processed: query, add, commit
MarkFacebookPostProcessed(processed, post_id, group_id) ==
    IF ~IsFacebookPostProcessed(processed, post_id)
    THEN processed \cup {<<group_id, post_id>>}
    ELSE processed

\* the loop of mark_facebook_posts_batch: each query autoflushes the session
\* (models.py:73, sessionmaker's default), so it sees the rows added before it
RECURSIVE AddUnprocessed(_, _)
AddUnprocessed(session, posts) ==
    IF posts = <<>> THEN session
    ELSE AddUnprocessed(IF ~IsFacebookPostProcessed(session, Head(posts)[2])
                        THEN session \cup {Head(posts)}
                        ELSE session,
                        Tail(posts))

\* Repository.mark_facebook_posts_batch with queries that see the committed rows only
MarkFacebookPostsBatchNoFlush(processed, posts) ==
    processed \cup {q \in Range(posts) : ~IsFacebookPostProcessed(processed, q[2])}

\* Repository.mark_facebook_posts_batch: the loop, then one commit for the whole list
MarkFacebookPostsBatch(processed, posts) == AddUnprocessed(processed, posts)


----------------------------------------------------------------------------
(* src/facebook/scraper.py *)

\* scrape_group: the feed is read newest first; the scan ends at the first
\* post whose id is in processed_ids, or when limit posts were collected (the
\* texts of the feed differ in their first 100 characters, so the text-hash
\* check of the scan removes nothing)
RECURSIVE ScrapeGroup(_, _, _)
ScrapeGroup(post_id, processed_ids, limit) ==
    IF post_id = 0 \/ limit = 0 \/ post_id \in processed_ids THEN <<>>
    ELSE <<<<FbChat, post_id>>>> \o ScrapeGroup(post_id - 1, processed_ids, limit - 1)

----------------------------------------------------------------------------
(* src/processing/analyzer.py *)

\* what call_llm can raise: the error of the backend, with str(e).  A
\* throttling error carries its status or its reason; another error carries
\* its own text, e.g. "500", or the name of the method that failed
Errors ==
    {[kind |-> "throttle", text |-> <<"4", "2", "9">>, retry_after |-> None],
     [kind |-> "throttle", text |-> <<"Q", "u", "o", "t", "a">>, retry_after |-> None],
     [kind |-> "other", text |-> <<"5", "0", "0">>, retry_after |-> None],
     [kind |-> "other", text |-> <<"g", "e", "n", "e", "r", "a", "t", "e">>,
      retry_after |-> None]}

NoError == [kind |-> "none", text |-> <<>>, retry_after |-> None]

\* throttling errors in which the backend says when to come back
\* (retry_after, in seconds): in the text of the error, as Gemini does
\* ("... retry in 7"), or in the Retry-After header of the 429 response,
\* which is not part of str(e) of httpx.HTTPStatusError
HintedErrors ==
    {[kind |-> "throttle",
      text |-> <<"4", "2", "9", " ", "R", "e", "t", "r", "y", " ", "i", "n", " ", "7">>,
      retry_after |-> 7],
     [kind |-> "throttle", text |-> <<"4", "2", "9">>, retry_after |-> 9]}

\* analyzer.py:146  wait_time = 60
DefaultWait == 60
\* analyzer.py:152  wait_time = int(match.group(1)) + 5
WaitMargin == 5

\* int() of one character of \d, or -1
DigitValue(ch) ==
    CASE ch = "0" -> 0 [] ch = "1" -> 1 [] ch = "2" -> 2 [] ch = "3" -> 3 [] ch = "4" -> 4
      [] ch = "5" -> 5 [] ch = "6" -> 6 [] ch = "7" -> 7 [] ch = "8" -> 8 [] ch = "9" -> 9
      [] OTHER -> -1

\* int() of the digits of text that start at position j
RECURSIVE Digits(_, _, _)
Digits(text, j, acc) ==
    IF j <= Len(text) /\ DigitValue(text[j]) >= 0
    THEN Digits(text, j + 1, acc * 10 + DigitValue(text[j]))
    ELSE acc

\* analyzer.py:146-154  wait_time: 60, or, when error_str.lower() matches
\* r'retry in (\d+)', the number of the first match plus 5
WaitTime(error_str) ==
    LET lower == Lower(error_str)
        phrase == <<"r", "e", "t", "r", "y", " ", "i", "n", " ">>
        matches == {j \in 1..(Len(lower) - Len(phrase)) :
                      /\ SubSeq(lower, j, j + Len(phrase) - 1) = phrase
                      /\ DigitValue(lower[j + Len(phrase)]) >= 0}
    IN  IF matches = {} THEN DefaultWait
        ELSE Digits(lower, (CHOOSE j \in matches : \A k \in matches : j <= k) + Len(phrase), 0)
               + WaitMargin

\* analyzer.py:145  "429" in error_str or "quota" in error_str.lower() or
\* "rate" in error_str.lower()
IsRateLimit(error_str) ==
    \/ Contains(error_str, <<"4", "2", "9">>)
    \/ Contains(Lower(error_str), <<"q", "u", "o", "t", "a">>)
    \/ Contains(Lower(error_str), <<"r", "a", "t", "e">>)

\* what call_llm can return for a chunk: an empty text, a JSON list that
\* flags some ids of the chunk, or a text that is no JSON
Replies(chunk) ==
    {[kind |-> "empty", ids |-> {}], [kind |-> "garbage", ids |-> {}]}
      \cup {[kind |-> "list", ids |-> L] : L \in SUBSET Range(chunk)}

\* parse_response, and the ids of the dict built at analyzer.py:136-139
ParseResponse(reply) == IF reply.kind = "list" THEN reply.ids ELSE {}

\* one chunk of a call: where its analyze_batch stands
NewChunk == [pc |-> "waiting", attempt |-> 0, calls |-> 0, sleeps |-> 0,
             wait |-> 0, err |-> NoError, leads |-> {}, reply |-> "none"]

IdleAb == [pc |-> "idle", texts |-> <<>>, batch_size |-> 0, batches |-> <<>>,
           group_start |-> 1, chunks |-> <<>>, all_results |-> {}, success |-> FALSE]

\* a split that leaves out a last chunk shorter than batch_size
BatchesOfFullSize(n, batch_size) ==
    [b \in 1..(n \div batch_size) |-> [j \in 1..batch_size |-> (b - 1) * batch_size + j]]

\* the chunks of analyze_messages_batch: texts[i:i + batch_size] for i = 0, batch_size, ...
Batches(n, batch_size) ==
    [b \in 1..((n + batch_size - 1) \div batch_size) |->
        [j \in 1..Min(batch_size, n - (b - 1) * batch_size) |-> (b - 1) * batch_size + j]]

\* what analyze_batch can give for one chunk: a dict of the ids flagged as
\* leads (ok), or AnalysisError
ChunkOutcomes(chunk) ==
    {[ok |-> FALSE, leads |-> {}]}
      \cup {[ok |-> TRUE, leads |-> ParseResponse(reply)] : reply \in Replies(chunk)}

\* the loop over the waves: all_results.update(result) for every dict, an
\* exception is logged
RECURSIVE GatherWaves(_, _, _)
GatherWaves(outcomes, group_start, max_parallel) ==
    IF group_start > Len(outcomes) THEN {}
    ELSE UNION {outcomes[b].leads :
                  b \in {x \in group_start..Min(group_start + max_parallel - 1, Len(outcomes)) :
                           outcomes[x].ok}}
         \cup GatherWaves(outcomes, group_start + max_parallel, max_parallel)

\* analyze_messages_batch: return all_results, True.  (main.py passes it the
\* keyword prompt_type, which selects the prompt text of src/processing/prompts.py;
\* that file and an analyzer taking the keyword are not in src/, so the
\* batching is taken from analyzer.py and the prompt is left out.)
AnalyzeMessagesBatch(outcomes, max_parallel) ==
    [results |-> GatherWaves(outcomes, 1, max_parallel), success |-> TRUE]

----------------------------------------------------------------------------
(* src/telegram/bot.py, src/main.py: what a cycle does to its own locals *)

\* NotificationBot.send_stats: called once more, with these counts; a delivery
\* error is caught inside send_stats
SendStats(c, total, filtered, analyzed, leads) ==
    [c EXCEPT !.stats = @ + 1, !.stats_args = <<total, filtered, analyzed, leads>>]

\* return (or the except clause) of process_cycle / process_facebook_cycle
Finish(c, outcome) == [c EXCEPT !.pc = "done", !.outcome = outcome]

\* an abort branch that reports the filtered items as analyzed
AbortReportsAnalyzed(c, total, filtered) ==
    Finish(SendStats(c, total, filtered, filtered, 0), "aborted")

\* main.py:131-134 and 313-316  if not success: send_stats(total, filtered, 0, 0); return
Abort(c, total, filtered) == Finish(SendStats(c, total, filtered, 0, 0), "aborted")

\* a list that takes every submitted item for a lead
LeadsListAll(filtered, results) == filtered

\* leads_list: the items of filtered whose index has a result, in order
LeadsList(filtered, results) ==
    LET idx == SelectSeq([i \in 1..Len(filtered) |-> i], LAMBDA i : i \in results)
    IN  [j \in 1..Len(idx) |-> filtered[idx[j]]]

\* how far a loop of n store writes or reads gets: to the end, or to a failure
\* at any point of it
UpTo(n) == IF faults < MaxFaults THEN 0..n ELSE {n}

\* whether bot.send_message delivers: it can fail like any call of the
\* environment
Deliveries == IF faults < MaxFaults THEN BOOLEAN ELSE {TRUE}

\* a send whose failure is raised into the cycle and ends it
LoggedRaises(c, kind, delivered) ==
    IF delivered THEN c
    ELSE [c EXCEPT !.undelivered = @ \cup {kind}, !.pc = "done", !.outcome = "error"]

\* bot.py:300-310  try: await self.bot.send_message(...) except Exception:
\* logger.error(...): a failed delivery is logged and nothing is raised
Logged(c, kind, delivered) ==
    IF delivered THEN c ELSE [c EXCEPT !.undelivered = @ \cup {kind}]

----------------------------------------------------------------------------
(* The sources.  A cycle reads a source once, so a posting that falls into *)
(* a cycle is seen either by that cycle's read or by the next cycle's: the   *)
(* postings are taken between the cycles.                                   *)

Quiet == \A s \in Slots : cy[s].pc = "idle"

\* a new message is posted in chat c
NewMessage(c) ==
    /\ "tg" \in focus
    /\ Quiet
    /\ tg_top[c] < MaxMsgId
    /\ tg_top' = [tg_top EXCEPT ![c] = @ + 1]
    /\ UNCHANGED <<focus, batcher, tg_old, chat_state, msg_rows, fb_top,
                   fb_processed, fb_group_state, fb_scraper, slots, cy, cycles,
                   watch, notif, commit_failed, reset_done, faults, ab,
                   exclude_words, fn, sg, is_paused, reset_count, call, llm_provider>>

\* a new post appears at the top of the group's feed
NewPost ==
    /\ "fb" \in focus
    /\ Quiet
    /\ fb_top < MaxPosts
    /\ fb_top' = fb_top + 1
    /\ UNCHANGED <<focus, batcher, tg_top, tg_old, chat_state, msg_rows,
                   fb_processed, fb_group_state, fb_scraper, slots, cy, cycles,
                   watch, notif, commit_failed, reset_done, faults, ab,
                   exclude_words, fn, sg, is_paused, reset_count, call, llm_provider>>


----------------------------------------------------------------------------
(* src/main.py: process_cycle *)

\* main.run_telegram_cycle: a scheduled tick or a manual /scan starts process_cycle
RunTelegramCycle(s) ==
    /\ s \in slots
    /\ cy[s].pc = "idle"
    /\ "tg" \in focus
    /\ cycles < MaxCycles
    /\ cycles' = cycles + 1
    /\ cy' = [cy EXCEPT ![s] = [IdleCy EXCEPT !.pc = "peers", !.platform = "tg"]]
    /\ reset_count' = None
    /\ UNCHANGED <<focus, batcher, tg_top, tg_old, chat_state, msg_rows, fb_top,
                   fb_processed, fb_group_state, fb_scraper, slots, watch, notif,
                   commit_failed, reset_done, faults, ab, exclude_words, fn, sg,
                   is_paused, call, llm_provider>>

\* main.py:28-32  get_folder_chats returns the peers of the folder, or nothing
GetFolderChats(s) ==
    /\ cy[s].pc = "peers"
    /\ \E peers \in {<<>>, <<1, 2>>} :
         cy' = [cy EXCEPT ![s] =
                  IF peers = <<>>
                  THEN Finish(SendStats(@, 0, 0, 0, 0), "no_sources")
                  ELSE [@ EXCEPT !.pc = "fetch", !.peers = peers, !.i = 1]]
    /\ UNCHANGED <<focus, batcher, tg_top, tg_old, chat_state, msg_rows, fb_top,
                   fb_processed, fb_group_state, fb_scraper, slots, cycles, watch,
                   notif, commit_failed, reset_done, faults, ab, exclude_words, fn,
                   sg, is_paused, reset_count, call, llm_provider>>

\* main.py:209-212, 385-388  an exception of the awaited call or of the store
\* read at this point is caught by the except clause of the cycle
Raise(s) ==
    /\ cy[s].pc \in {"peers", "fetch", "scrape"}
    /\ faults < MaxFaults
    /\ faults' = faults + 1
    /\ cy' = [cy EXCEPT ![s] = Finish(@, "error")]
    /\ UNCHANGED <<focus, batcher, tg_top, tg_old, chat_state, msg_rows, fb_top,
                   fb_processed, fb_group_state, fb_scraper, slots, cycles, watch,
                   notif, commit_failed, reset_done, ab, exclude_words, fn, sg,
                   is_paused, reset_count, call, llm_provider>>

\* main.py:55  cutoff = now - 24 hours, as the id of the newest message of the
\* chat that is older than it: time only goes on, so a message that was older
\* than the cutoff once is older than every later one.  Only the scan of a
\* chat with no watermark looks at the dates
CutoffsNow(c, min_id) == IF min_id = None THEN tg_old[c]..tg_top[c] ELSE {tg_old[c]}

\* a window that lets every fetched message through
RecentMessagesAll(items, cutoff) == items

\* main.py:56  recent_messages = [m for m in messages if m.date > cutoff]
RecentMessages(items, cutoff) == SelectSeq(items, LAMBDA m : m[2] > cutoff)

\* main.py:38-73  one turn of the loop over the peers
FetchPeer(s) ==
    /\ cy[s].pc = "fetch"
    /\ LET c == cy[s].peers[cy[s].i]
           min_id == GetLastMessageId(c)
           lo == IF min_id = None THEN 0 ELSE min_id
       IN  \E read \in UpTo(Len(IterMessages(tg_top[c], lo, FetchLimit))),
              cutoff \in CutoffsNow(c, min_id) :
             LET messages == GetNewMessages(c, lo, read)
                 items == [j \in 1..Len(messages) |-> <<c, messages[j]>>]
                 recent_messages == RecentMessages(items, cutoff)
                 passed == IF min_id = None THEN recent_messages ELSE items
             IN  /\ cy' = [cy EXCEPT ![s] =
                   [@ EXCEPT !.read[c] = min_id,
                             !.chats_to_update =
                                 IF messages = <<>> THEN @
                                 ELSE Append(@, <<c, SeqMax(messages)>>),
                             !.all_messages = @ \o passed,
                             !.fetched = @ \cup Range(items),
                             !.failed_peers =
                                 IF read < Len(IterMessages(tg_top[c], lo, FetchLimit))
                                 THEN @ \cup {c} ELSE @,
                             !.i = @ + 1,
                             !.pc = IF cy[s].i = Len(cy[s].peers) THEN "filter" ELSE "fetch"]]
                 /\ faults' = IF read < Len(IterMessages(tg_top[c], lo, FetchLimit))
                               THEN faults + 1 ELSE faults
                 /\ tg_old' = [tg_old EXCEPT ![c] = cutoff]
    /\ UNCHANGED <<focus, batcher, tg_top, chat_state, msg_rows, fb_top,
                   fb_processed, fb_group_state, fb_scraper, slots, cycles, watch,
                   notif, commit_failed, reset_done, ab, exclude_words, fn, sg,
                   is_paused, reset_count, call, llm_provider>>

\* main.py:75-116  filter, deduplicate, save the survivors (saved = the rows
\* written before a store error, or all of them)
FilterSave(s) ==
    /\ cy[s].pc = "filter"
    /\ LET c == cy[s]
           total_messages == Len(c.all_messages)
           filtered == Deduplicate(FilterMessages(c.all_messages))
       IN  IF c.all_messages = <<>>
           THEN /\ cy' = [cy EXCEPT ![s] = Finish(SendStats(c, 0, 0, 0, 0), "nothing_fetched")]
                /\ UNCHANGED <<msg_rows, faults>>
           ELSE \E saved \in UpTo(Len(filtered)) :
                  /\ faults' = IF saved < Len(filtered) THEN faults + 1 ELSE faults
                  /\ msg_rows' = SaveMessages(msg_rows, filtered, saved)
                  /\ cy' = [cy EXCEPT ![s] =
                       IF saved < Len(filtered) THEN Finish(c, "error")
                       ELSE IF filtered = <<>>
                            THEN Finish(SendStats(c, total_messages, 0, 0, 0), "all_filtered")
                            ELSE [c EXCEPT !.pc = "classify", !.filtered = filtered]]
    /\ UNCHANGED <<focus, batcher, tg_top, tg_old, chat_state, fb_top, fb_processed,
                   fb_group_state, fb_scraper, slots, cycles, watch, notif,
                   commit_failed, reset_done, ab, exclude_words, fn, sg, is_paused,
                   reset_count, call, llm_provider>>


\* the outcomes of the chunks of one call, one per chunk
OutcomeVectors(n) ==
    LET batches == Batches(n, BatchSize)
        any == UNION {ChunkOutcomes(batches[b]) : b \in 1..Len(batches)}
    IN  {o \in [1..Len(batches) -> any] : \A b \in 1..Len(batches) : o[b] \in ChunkOutcomes(batches[b])}

\* what the call analyze_messages_batch(texts_to_analyze) can return, with
\* whether a chunk failed in it; the test double returns any pair
ClassifierReturns(n) ==
    IF batcher = "code"
    THEN {[results |-> AnalyzeMessagesBatch(o, MaxParallel).results,
           success |-> AnalyzeMessagesBatch(o, MaxParallel).success,
           chunk_failed |-> \E b \in 1..Len(o) : ~o[b].ok] : o \in OutcomeVectors(n)}
    ELSE {[results |-> R, success |-> f, chunk_failed |-> ~f] :
             R \in SUBSET (1..n), f \in BOOLEAN}

\* main.py:129-189 and 311-357  the classifier returns; on success the leads
\* are collected and, in process_cycle, their verdicts written (written = the
\* verdicts written before a store error, or all of them)
Classify(s) ==
    /\ cy[s].pc = "classify"
    /\ LET c == cy[s]
           total == Len(c.all_messages)
           n == Len(c.filtered)
       IN  \E r \in ClassifierReturns(n) :
             LET got == [c EXCEPT !.results = r.results, !.success = r.success,
                                  !.chunk_failed = r.chunk_failed]
                 leads_list == LeadsList(c.filtered, r.results)
             IN  IF ~r.success
                 THEN /\ cy' = [cy EXCEPT ![s] = Abort(got, total, n)]
                      /\ UNCHANGED <<msg_rows, faults>>
                 ELSE \E written \in (IF c.platform = "tg" THEN UpTo(Len(leads_list))
                                                            ELSE {Len(leads_list)}) :
                        /\ faults' = IF written < Len(leads_list) THEN faults + 1 ELSE faults
                        /\ msg_rows' = IF c.platform = "tg"
                                       THEN UpdateLeadStatus(msg_rows, leads_list, written)
                                       ELSE msg_rows
                        /\ cy' = [cy EXCEPT ![s] =
                             IF written < Len(leads_list) THEN Finish(got, "error")
                             ELSE [got EXCEPT !.leads = leads_list,
                                              !.pc = IF leads_list # <<>> THEN "notify"
                                                                           ELSE "commit"]]
    /\ UNCHANGED <<focus, batcher, tg_top, tg_old, chat_state, fb_top, fb_processed,
                   fb_group_state, fb_scraper, slots, cycles, watch, notif,
                   commit_failed, reset_done, ab, exclude_words, fn, sg, is_paused,
                   reset_count, call, llm_provider>>

\* main.py:192-193 and 360-361  await bot.send_leads_batch(leads_list): one
\* message with all the leads of the cycle.  bot.py of src/ has no
\* send_leads_batch; like send_stats and send_facebook_leads_batch it catches
\* its delivery errors, so the cycle goes on to the commit either way
NotifyLeads(s) ==
    /\ cy[s].pc = "notify"
    /\ \E delivered \in Deliveries :
         /\ cy' = [cy EXCEPT ![s] =
                     Logged([@ EXCEPT !.leads_sent = @ + 1, !.pc = "commit"],
                            "leads", delivered)]
         /\ faults' = IF delivered THEN faults ELSE faults + 1
    /\ notif' = IF watch \in Range(cy[s].leads) THEN notif + 1 ELSE notif
    /\ UNCHANGED <<focus, batcher, tg_top, tg_old, chat_state, msg_rows, fb_top,
                   fb_processed, fb_group_state, fb_scraper, slots, cycles, watch,
                   commit_failed, reset_done, ab, exclude_words, fn, sg, is_paused,
                   reset_count, call, llm_provider>>

\* main.py:195-207  the watermarks are written one by one, each in its own
\* transaction (updated = the writes done before a store error, or all of
\* them), then the stats are sent
CommitTelegram(s) ==
    /\ cy[s].pc = "commit"
    /\ cy[s].platform = "tg"
    /\ LET c == cy[s]
           n == Len(c.filtered)
       IN  \E updated \in UpTo(Len(c.chats_to_update)), delivered \in Deliveries :
             LET w == [c EXCEPT !.wrote = (updated > 0)]
             IN  /\ updated < Len(c.chats_to_update) => delivered
                 /\ chat_state' = UpdateChats(chat_state, c.chats_to_update, updated)
                 /\ cy' = [cy EXCEPT ![s] =
                      IF updated < Len(c.chats_to_update) THEN Finish(w, "error")
                      ELSE Finish(Logged(SendStats(w, Len(c.all_messages), n, n, Len(c.leads)),
                                         "stats", delivered), "ok")]
                 /\ commit_failed' = (commit_failed \/
                      (/\ watch \in Range(c.leads)
                       /\ \A j \in 1..updated : c.chats_to_update[j][1] # watch[1]))
                 /\ faults' = IF updated < Len(c.chats_to_update) \/ ~delivered
                               THEN faults + 1 ELSE faults
    /\ UNCHANGED <<focus, batcher, tg_top, tg_old, msg_rows, fb_top, fb_processed,
                   fb_group_state, fb_scraper, slots, cycles, watch, notif,
                   reset_done, ab, exclude_words, fn, sg, is_paused, reset_count,
                   call, llm_provider>>

\* main.py:211-212, 387-388, 419, 439  finally: repo.close(); the coroutine returns
Return(s) ==
    /\ cy[s].pc = "done"
    /\ cy' = [cy EXCEPT ![s] = IdleCy]
    /\ UNCHANGED <<focus, batcher, tg_top, tg_old, chat_state, msg_rows, fb_top,
                   fb_processed, fb_group_state, fb_scraper, slots, cycles, watch,
                   notif, commit_failed, reset_done, faults, ab, exclude_words, fn,
                   sg, is_paused, reset_count, call, llm_provider>>

\* main.py:450-457, bot.py:155-162  /reset: repo.reset_telegram_chat_states()
\* removes the watermark of every chat and returns how many there were
\* (repository.py of src/ has no such method)
ResetChatStates ==
    /\ "tg" \in focus
    /\ chat_state' = [c \in Chats |-> None]
    /\ reset_count' = Cardinality({c \in Chats : chat_state[c] # None})
    /\ reset_done' = TRUE
    /\ UNCHANGED <<focus, batcher, tg_top, tg_old, msg_rows, fb_top, fb_processed,
                   fb_group_state, fb_scraper, slots, cy, cycles, watch, notif,
                   commit_failed, faults, ab, exclude_words, fn, sg, is_paused, call,
                   llm_provider>>

----------------------------------------------------------------------------
(* src/main.py: process_facebook_cycle *)

\* main.run_facebook_cycle: a scraper is created and started when there is
\* none; the cycle runs unless that start() fails
RunFacebookCycle(s) ==
    /\ s \in slots
    /\ cy[s].pc = "idle"
    /\ "fb" \in focus
    /\ cycles < MaxCycles
    /\ cycles' = cycles + 1
    /\ \E started \in BOOLEAN :
         /\ fb_scraper # "none" => started
         /\ faults = MaxFaults => started
         /\ faults' = IF started THEN faults ELSE faults + 1
         /\ fb_scraper' = IF fb_scraper # "none" THEN fb_scraper
                          ELSE IF started THEN "started" ELSE "failed"
         /\ cy' = IF fb_scraper = "none" /\ ~started THEN cy
                  ELSE [cy EXCEPT ![s] = [IdleCy EXCEPT !.pc = "groups", !.platform = "fb",
                                                         !.i = cycles + 1]]
    /\ UNCHANGED <<focus, batcher, tg_top, tg_old, chat_state, msg_rows, fb_top,
                   fb_processed, fb_group_state, slots, watch, notif, commit_failed,
                   reset_done, ab, exclude_words, fn, sg, is_paused, reset_count,
                   call, llm_provider>>

\* main.py:230-246  the groups are listed (none with a scraper that has no
\* page), then the processed ids are loaded, or {} when the query fails
GetUserGroups(s) ==
    /\ cy[s].pc = "groups"
    /\ \E groups \in (IF fb_scraper = "started" THEN {<<>>, <<Group>>} ELSE {<<>>}),
          loaded \in BOOLEAN :
         /\ (faults = MaxFaults \/ groups = <<>>) => loaded
         /\ faults' = IF loaded THEN faults ELSE faults + 1
         /\ cy' = [cy EXCEPT ![s] =
                  IF groups = <<>>
                  THEN Finish(SendStats(@, 0, 0, 0, 0), "no_sources")
                  ELSE [@ EXCEPT !.pc = "scrape", !.peers = groups,
                                 !.processed_ids = IF loaded THEN {row[2] : row \in fb_processed}
                                                                 ELSE {}]]
    /\ UNCHANGED <<focus, batcher, tg_top, tg_old, chat_state, msg_rows, fb_top,
                   fb_processed, fb_group_state, fb_scraper, slots, cycles, watch,
                   notif, commit_failed, reset_done, ab, exclude_words, fn, sg,
                   is_paused, reset_count, call, llm_provider>>

\* main.py:257-307  the scrape returns (got = the posts collected before the
\* feed stopped loading or the 45 s ran out, or all of them); the posts
\* already processed and the excluded ones are removed; when nothing is left
\* after the exclusion the new posts are marked at once
ScrapeFilter(s) ==
    /\ cy[s].pc = "scrape"
    /\ LET c == cy[s]
           feed == ScrapeGroup(fb_top, c.processed_ids, PostsPerGroup)
       IN  \E got \in 0..Len(feed), marked \in BOOLEAN :
             LET all_posts == SubSeq(feed, 1, got)
                 total_posts == Len(all_posts)
                 new_posts == SelectSeq(all_posts,
                                LAMBDA p : ~IsFacebookPostProcessed(fb_processed, p[2]))
                 filtered_posts == FilterMessages(new_posts)
                 f == [c EXCEPT !.all_messages = all_posts, !.fetched = Range(all_posts),
                                !.new_posts = new_posts]
             IN  /\ (new_posts = <<>> \/ filtered_posts # <<>> \/ faults = MaxFaults) => marked
                 /\ faults' = IF marked THEN faults ELSE faults + 1
                 /\ fb_processed' =
                      IF new_posts # <<>> /\ filtered_posts = <<>> /\ marked
                      THEN MarkFacebookPostsBatch(fb_processed, new_posts)
                      ELSE fb_processed
                 /\ cy' = [cy EXCEPT ![s] =
                      IF all_posts = <<>>
                      THEN Finish(SendStats(f, 0, 0, 0, 0), "nothing_fetched")
                      ELSE IF new_posts = <<>>
                      THEN Finish(SendStats(f, total_posts, 0, 0, 0), "nothing_new")
                      ELSE IF filtered_posts = <<>>
                      THEN IF marked
                           THEN Finish(SendStats([f EXCEPT !.wrote = TRUE],
                                                 total_posts, 0, 0, 0), "all_filtered")
                           ELSE Finish(f, "error")
                      ELSE [f EXCEPT !.pc = "classify", !.filtered = filtered_posts]]
    /\ UNCHANGED <<focus, batcher, tg_top, tg_old, chat_state, msg_rows, fb_top,
                   fb_group_state, fb_scraper, slots, cycles, watch, notif,
                   commit_failed, reset_done, ab, exclude_words, fn, sg, is_paused,
                   reset_count, call, llm_provider>>

\* main.py:363-383  mark_facebook_posts_batch, update_facebook_group_state of
\* every group, send_stats, send_group_breakdown (done = the store writes
\* done before a store error: 0 none, 1 the posts, 2 the posts and the group)
CommitFacebook(s) ==
    /\ cy[s].pc = "commit"
    /\ cy[s].platform = "fb"
    /\ LET c == cy[s]
           n == Len(c.filtered)
       IN  \E done \in UpTo(2), delivered \in Deliveries :
             LET w == [c EXCEPT !.wrote = (done > 0)]
             IN  /\ done < 2 => delivered
                 /\ fb_processed' = IF done >= 1
                                    THEN MarkFacebookPostsBatch(fb_processed, c.new_posts)
                                    ELSE fb_processed
                 /\ fb_group_state' = IF done = 2 THEN UpdateFacebookGroupState(fb_group_state, c.i)
                                                   ELSE fb_group_state
                 /\ cy' = [cy EXCEPT ![s] =
                      IF done < 2 THEN Finish(w, "error")
                      ELSE Finish(Logged(SendStats(w, Len(c.all_messages), n, n, Len(c.leads)),
                                         "stats", delivered), "ok")]
                 /\ commit_failed' = (commit_failed \/ (done = 0 /\ watch \in Range(c.leads)))
                 /\ faults' = IF done < 2 \/ ~delivered THEN faults + 1 ELSE faults
    /\ UNCHANGED <<focus, batcher, tg_top, tg_old, chat_state, msg_rows, fb_top,
                   fb_scraper, slots, cycles, watch, notif, reset_done, ab,
                   exclude_words, fn, sg, is_paused, reset_count, call, llm_provider>>

----------------------------------------------------------------------------
(* The program *)

InitStore ==
    /\ tg_top = [c \in Chats |-> 0]
    /\ tg_old = [c \in Chats |-> 0]
    /\ chat_state = [c \in Chats |-> None]
    /\ msg_rows = NoRows
    /\ fb_top = 0
    /\ fb_processed = {}
    /\ fb_group_state = 0
    /\ cy = [s \in Slots |-> IdleCy]
    /\ cycles = 0
    /\ notif = 0
    /\ commit_failed = FALSE
    /\ reset_done = FALSE
    /\ faults = 0
    /\ ab = IdleAb
    /\ is_paused = [p \in {"tg", "fb"} |-> FALSE]
    /\ reset_count = None
    /\ call = IdleCall

\* config.py:44  the configuration is loaded; no list is being filtered apart
\* from the cycles
InitConfig ==
    /\ exclude_words = ExcludeWords /\ fn = IdleFn /\ sg = IdleSg
    /\ llm_provider = "gemini"

\* main.py:405-414  the deployment: the platform that is scanned, and whether
\* the scraper could be started at startup
InitDeployment ==
    /\ focus \in {{"tg"}, {"fb"}}
    /\ fb_scraper \in (IF "fb" \in focus THEN {"none", "started"} ELSE {"none"})
    /\ slots = {1}
    /\ InitConfig

Init == InitStore /\ InitDeployment /\ batcher = "code" /\ watch = NoItem

\* the same program, one of its source items followed through the cycles
InitWatch ==
    /\ InitStore /\ InitDeployment /\ batcher = "code"
    /\ watch \in (IF "tg" \in focus THEN TgItems ELSE FbItems)

\* the same program with analyze_messages_batch replaced by a test double
InitStub == InitStore /\ InitDeployment /\ batcher = "stub" /\ watch = NoItem

Next ==
    \/ \E c \in Chats : NewMessage(c)
    \/ NewPost
    \/ \E s \in Slots :
         \/ RunTelegramCycle(s)
         \/ GetFolderChats(s)
         \/ FetchPeer(s)
         \/ FilterSave(s)
         \/ RunFacebookCycle(s)
         \/ GetUserGroups(s)
         \/ ScrapeFilter(s)
         \/ Raise(s)
         \/ Classify(s)
         \/ NotifyLeads(s)
         \/ CommitTelegram(s)
         \/ CommitFacebook(s)
         \/ Return(s)

Spec == Init /\ [][Next]_vars

SpecWatch == InitWatch /\ [][Next]_vars

SpecStub == InitStub /\ [][Next]_vars

\* the program with an operator who sends /reset, at any moment
NextReset == Next \/ ResetChatStates

SpecReset == Init /\ [][NextReset]_vars

----------------------------------------------------------------------------
(* src/db/repository.py called directly: every write operation of the      *)
(* Repository with any arguments, in any order                             *)

CallUpdateLastMessageId(c, message_id) ==
    /\ chat_state' = UpdateLastMessageId(chat_state, c, message_id)
    /\ UNCHANGED <<focus, batcher, tg_top, tg_old, msg_rows, fb_top, fb_processed,
                   fb_group_state, fb_scraper, slots, cy, cycles, watch, notif,
                   commit_failed, reset_done, faults, ab, exclude_words, fn, sg,
                   is_paused, reset_count, call, llm_provider>>

CallSaveMessage(msg) ==
    /\ msg_rows.null + msg_rows.lead < MaxRows
    /\ msg_rows' = SaveMessage(msg_rows, msg)
    /\ UNCHANGED <<focus, batcher, tg_top, tg_old, chat_state, fb_top, fb_processed,
                   fb_group_state, fb_scraper, slots, cy, cycles, watch, notif,
                   commit_failed, reset_done, faults, ab, exclude_words, fn, sg,
                   is_paused, reset_count, call, llm_provider>>

CallUpdateMessageLeadStatus(msg) ==
    /\ msg_rows.null > 0
    /\ msg_rows' = UpdateMessageLeadStatus(msg_rows, msg)
    /\ UNCHANGED <<focus, batcher, tg_top, tg_old, chat_state, fb_top, fb_processed,
                   fb_group_state, fb_scraper, slots, cy, cycles, watch, notif,
                   commit_failed, reset_done, faults, ab, exclude_words, fn, sg,
                   is_paused, reset_count, call, llm_provider>>

CallUpdateFacebookGroupState(scan_time) ==
    /\ fb_group_state' = UpdateFacebookGroupState(fb_group_state, scan_time)
    /\ UNCHANGED <<focus, batcher, tg_top, tg_old, chat_state, msg_rows, fb_top,
                   fb_processed, fb_scraper, slots, cy, cycles, watch, notif,
                   commit_failed, reset_done, faults, ab, exclude_words, fn, sg,
                   is_paused, reset_count, call, llm_provider>>

\* a caller of mark_facebook_post_processed
CallMarkFacebookPostProcessed(post_id, group_id) ==
    /\ fb_processed' = MarkFacebookPostProcessed(fb_processed, post_id, group_id)
    /\ call' = [op |-> "mark", posts |-> <<<<group_id, post_id>>>>, before |-> fb_processed]
    /\ UNCHANGED <<focus, batcher, tg_top, tg_old, chat_state, msg_rows, fb_top,
                   fb_group_state, fb_scraper, slots, cy, cycles, watch, notif,
                   commit_failed, reset_done, faults, ab, exclude_words, fn, sg,
                   is_paused, reset_count, llm_provider>>

\* a caller of mark_facebook_posts_batch
CallMarkFacebookPostsBatch(posts) ==
    /\ fb_processed' = MarkFacebookPostsBatch(fb_processed, posts)
    /\ call' = [op |-> "batch", posts |-> posts, before |-> fb_processed]
    /\ UNCHANGED <<focus, batcher, tg_top, tg_old, chat_state, msg_rows, fb_top,
                   fb_group_state, fb_scraper, slots, cy, cycles, watch, notif,
                   commit_failed, reset_done, faults, ab, exclude_words, fn, sg,
                   is_paused, reset_count, llm_provider>>

InitRepo ==
    /\ InitStore
    /\ focus = {} /\ fb_scraper = "none" /\ slots = {} /\ batcher = "code"
    /\ watch = <<1, 1>>
    /\ InitConfig

NextRepo ==
    \/ \E c \in Chats, message_id \in 1..MaxMsgId : CallUpdateLastMessageId(c, message_id)
    \/ CallSaveMessage(watch)
    \/ CallUpdateMessageLeadStatus(watch)
    \/ \E scan_time \in 1..MaxCycles : CallUpdateFacebookGroupState(scan_time)

SpecRepo == InitRepo /\ [][NextRepo]_vars

\* the group ids and the (group id, post id) pairs the callers pass
GroupIds == {FbChat, FbChat + 1}

PostPairs == GroupIds \X (1..MaxRows)

PostLists == {<<p>> : p \in PostPairs} \cup (PostPairs \X PostPairs)
                \cup (PostPairs \X PostPairs \X PostPairs)

NextMarks ==
    \/ \E post_id \in 1..MaxRows, group_id \in GroupIds :
            CallMarkFacebookPostProcessed(post_id, group_id)
    \/ \E posts \in PostLists : CallMarkFacebookPostsBatch(posts)

SpecMarks == InitRepo /\ [][NextMarks]_vars

----------------------------------------------------------------------------
(* src/processing/analyzer.py step by step: one call of                    *)
(* analyze_messages_batch; every chunk of a wave runs its analyze_batch,   *)
(* and the steps of the chunks of one wave interleave at the awaits        *)

\* a wave that takes one chunk more
GroupAtWide(group_start, total_batches) ==
    group_start..Min(group_start + MaxParallel, total_batches)

\* the chunks of the wave that starts at group_start
GroupAt(group_start, total_batches) ==
    group_start..Min(group_start + MaxParallel - 1, total_batches)

\* analyzer.py:201-202, 121-127  gather starts analyze_batch for every chunk
\* of the wave; each runs to its first call_llm
Dispatch(chunks, group) ==
    [b \in 1..Len(chunks) |->
        IF b \in group THEN [chunks[b] EXCEPT !.pc = "calling", !.calls = 1]
        ELSE chunks[b]]

\* a loop over the results of the wave that stops at the first exception
GatherResultsUntilFailure(all_results, chunks, group) ==
    all_results \cup UNION {chunks[b].leads :
        b \in {x \in group : \A y \in group : y <= x => chunks[y].pc = "ok"}}

\* analyzer.py:205-211  all_results.update(result) for every dict of the
\* wave; an exception is logged
GatherResults(all_results, chunks, group) ==
    all_results \cup UNION {chunks[b].leads : b \in {x \in group : chunks[x].pc = "ok"}}

\* analyzer.py:183-202  the call: the texts are split and the first wave starts
AbCall ==
    /\ ab.pc = "idle"
    /\ \E n \in 0..MaxTexts :
         LET batches == Batches(n, BatchSize)
             chunks == [b \in 1..Len(batches) |-> NewChunk]
         IN  ab' = IF batches = <<>>
                   THEN [IdleAb EXCEPT !.pc = "returned", !.success = TRUE,
                                       !.batch_size = BatchSize]
                   ELSE [IdleAb EXCEPT !.pc = "gather", !.batches = batches,
                                       !.texts = [j \in 1..n |-> j],
                                       !.batch_size = BatchSize,
                                       !.chunks = Dispatch(chunks, GroupAt(1, Len(batches)))]
    /\ UNCHANGED <<focus, batcher, tg_top, tg_old, chat_state, msg_rows, fb_top,
                   fb_processed, fb_group_state, fb_scraper, slots, cy, cycles,
                   watch, notif, commit_failed, reset_done, faults, exclude_words,
                   fn, sg, is_paused, reset_count, call, llm_provider>>

\* analyzer.py:127-139  call_llm returns: the reply is parsed, the chunk ends
\* with the dict of its leads
AbReplies(b) ==
    /\ ab.pc = "gather" /\ b \in 1..Len(ab.chunks)
    /\ ab.chunks[b].pc = "calling"
    /\ \E reply \in Replies(ab.batches[b]) :
         ab' = [ab EXCEPT !.chunks[b] = [@ EXCEPT !.pc = "ok", !.leads = ParseResponse(reply)]]
    /\ UNCHANGED <<focus, batcher, tg_top, tg_old, chat_state, msg_rows, fb_top,
                   fb_processed, fb_group_state, fb_scraper, slots, cy, cycles,
                   watch, notif, commit_failed, reset_done, faults, exclude_words,
                   fn, sg, is_paused, reset_count, call, llm_provider>>

\* analyzer.py:141-162  call_llm raises: a rate-limit error before the last
\* attempt is followed by a sleep, every other one by AnalysisError
AbRaises(b) ==
    /\ ab.pc = "gather" /\ b \in 1..Len(ab.chunks)
    /\ ab.chunks[b].pc = "calling"
    /\ \E e \in Errors :
         ab' = [ab EXCEPT !.chunks[b] =
                  IF IsRateLimit(e.text) /\ @.attempt < MaxRetries - 1
                  THEN [@ EXCEPT !.pc = "sleeping", !.sleeps = @ + 1, !.err = e,
                                 !.wait = WaitTime(e.text)]
                  ELSE [@ EXCEPT !.pc = "failed", !.err = e]]
    /\ UNCHANGED <<focus, batcher, tg_top, tg_old, chat_state, msg_rows, fb_top,
                   fb_processed, fb_group_state, fb_scraper, slots, cy, cycles,
                   watch, notif, commit_failed, reset_done, faults, exclude_words,
                   fn, sg, is_paused, reset_count, call, llm_provider>>

\* analyzer.py:158-159, 121-127  the sleep ends; continue: the next attempt calls
AbWakes(b) ==
    /\ ab.pc = "gather" /\ b \in 1..Len(ab.chunks)
    /\ ab.chunks[b].pc = "sleeping"
    /\ ab' = [ab EXCEPT !.chunks[b] =
                [@ EXCEPT !.pc = "calling", !.attempt = @ + 1, !.calls = @ + 1]]
    /\ UNCHANGED <<focus, batcher, tg_top, tg_old, chat_state, msg_rows, fb_top,
                   fb_processed, fb_group_state, fb_scraper, slots, cy, cycles,
                   watch, notif, commit_failed, reset_done, faults, exclude_words,
                   fn, sg, is_paused, reset_count, call, llm_provider>>

\* analyzer.py:202-214  gather returns when every chunk of the wave has
\* ended; the results are merged; the next wave starts, or the call returns
AbGather ==
    /\ ab.pc = "gather"
    /\ LET total_batches == Len(ab.batches)
           group == GroupAt(ab.group_start, total_batches)
           next_start == ab.group_start + MaxParallel
           merged == GatherResults(ab.all_results, ab.chunks, group)
       IN  /\ \A b \in group : ab.chunks[b].pc \in {"ok", "failed"}
           /\ ab' = IF next_start > total_batches
                     THEN [ab EXCEPT !.all_results = merged, !.pc = "returned",
                                     !.success = TRUE]
                     ELSE [ab EXCEPT !.all_results = merged, !.group_start = next_start,
                                     !.chunks = Dispatch(@, GroupAt(next_start, total_batches))]
    /\ UNCHANGED <<focus, batcher, tg_top, tg_old, chat_state, msg_rows, fb_top,
                   fb_processed, fb_group_state, fb_scraper, slots, cy, cycles,
                   watch, notif, commit_failed, reset_done, faults, exclude_words,
                   fn, sg, is_paused, reset_count, call, llm_provider>>

InitBatcher ==
    /\ InitStore
    /\ focus = {} /\ fb_scraper = "none" /\ slots = {} /\ batcher = "code"
    /\ watch = NoItem
    /\ InitConfig

NextBatcher ==
    \/ AbCall
    \/ AbGather
    \/ \E b \in 1..MaxTexts : AbReplies(b) \/ AbRaises(b) \/ AbWakes(b)

SpecBatcher == InitBatcher /\ [][NextBatcher]_vars

----------------------------------------------------------------------------
(* analyze_messages_batch called with a batch_size of the caller's choice *)

\* analyzer.py:167-202  the call with its parameter batch_size: the texts,
\* which carry the ids 1..n, are split and the first wave starts
AbCallSized(batch_size) ==
    /\ ab.pc = "idle"
    /\ \E n \in 0..MaxTexts :
         LET batches == Batches(n, batch_size)
             chunks == [b \in 1..Len(batches) |-> NewChunk]
         IN  ab' = IF batches = <<>>
                   THEN [IdleAb EXCEPT !.pc = "returned", !.success = TRUE,
                                       !.batch_size = batch_size]
                   ELSE [IdleAb EXCEPT !.pc = "gather", !.batches = batches,
                                       !.texts = [j \in 1..n |-> j],
                                       !.batch_size = batch_size,
                                       !.chunks = Dispatch(chunks, GroupAt(1, Len(batches)))]
    /\ UNCHANGED <<focus, batcher, tg_top, tg_old, chat_state, msg_rows, fb_top,
                   fb_processed, fb_group_state, fb_scraper, slots, cy, cycles,
                   watch, notif, commit_failed, reset_done, faults, exclude_words,
                   fn, sg, is_paused, reset_count, call, llm_provider>>

NextSized ==
    \/ \E batch_size \in 1..(MaxTexts + 1) : AbCallSized(batch_size)
    \/ AbGather
    \/ \E b \in 1..MaxTexts : AbReplies(b) \/ AbRaises(b) \/ AbWakes(b)

SpecSized == InitBatcher /\ [][NextSized]_vars

----------------------------------------------------------------------------
(* A backend that says when to come back *)

\* analyzer.py:141-162  call_llm raises a throttling error that carries an interval
AbRaisesHinted(b) ==
    /\ ab.pc = "gather" /\ b \in 1..Len(ab.chunks)
    /\ ab.chunks[b].pc = "calling"
    /\ \E e \in HintedErrors :
         ab' = [ab EXCEPT !.chunks[b] =
                  IF IsRateLimit(e.text) /\ @.attempt < MaxRetries - 1
                  THEN [@ EXCEPT !.pc = "sleeping", !.sleeps = @ + 1, !.err = e,
                                 !.wait = WaitTime(e.text)]
                  ELSE [@ EXCEPT !.pc = "failed", !.err = e]]
    /\ UNCHANGED <<focus, batcher, tg_top, tg_old, chat_state, msg_rows, fb_top,
                   fb_processed, fb_group_state, fb_scraper, slots, cy, cycles,
                   watch, notif, commit_failed, reset_done, faults, exclude_words,
                   fn, sg, is_paused, reset_count, call, llm_provider>>

NextRetry ==
    \/ AbCall
    \/ AbGather
    \/ \E b \in 1..MaxTexts : AbReplies(b) \/ AbRaises(b) \/ AbRaisesHinted(b) \/ AbWakes(b)

SpecRetry == InitBatcher /\ [][NextRetry]_vars

----------------------------------------------------------------------------
(* What analyze_batch makes of each kind of reply *)

\* the texts call_llm can return: those of Replies, and a JSON value that is
\* no list (an object, a string), which json.loads returns as it is
ReplyTexts(chunk) == Replies(chunk) \cup {[kind |-> "object", ids |-> {}]}

\* analyzer.py:131-139  r.get / r["id"] on an element that is no dict
AttributeError == [kind |-> "other", text |-> <<"g", "e", "t">>, retry_after |-> None]

\* analyzer.py:61-90  parse_response returns a value for every text but the
\* JSON value that is no list, on which the loops of analyze_batch raise
Parses(reply) == reply.kind \in {"empty", "garbage", "list"}

\* analyzer.py:127-139  call_llm returns; the chunk keeps the kind of the reply
AbParses(b) ==
    /\ ab.pc = "gather" /\ b \in 1..Len(ab.chunks)
    /\ ab.chunks[b].pc = "calling"
    /\ \E reply \in ReplyTexts(ab.batches[b]) :
         ab' = [ab EXCEPT !.chunks[b] =
                  IF Parses(reply)
                  THEN [@ EXCEPT !.pc = "ok", !.leads = ParseResponse(reply),
                                 !.reply = reply.kind]
                  ELSE [@ EXCEPT !.pc = "failed", !.err = AttributeError,
                                 !.reply = reply.kind]]
    /\ UNCHANGED <<focus, batcher, tg_top, tg_old, chat_state, msg_rows, fb_top,
                   fb_processed, fb_group_state, fb_scraper, slots, cy, cycles,
                   watch, notif, commit_failed, reset_done, faults, exclude_words,
                   fn, sg, is_paused, reset_count, call, llm_provider>>

NextParse ==
    \/ AbCall
    \/ AbGather
    \/ \E b \in 1..MaxTexts : AbParses(b) \/ AbRaises(b) \/ AbWakes(b)

SpecParse == InitBatcher /\ [][NextParse]_vars

----------------------------------------------------------------------------
(* A backend that does not answer *)

\* the error of a call that was given up (httpx.ReadTimeout, or a deadline of
\* the Gemini client), with what str(e) reads
TimeoutError == [kind |-> "other", text |-> <<"t", "i", "m", "e", "d">>,
                 retry_after |-> None]

\* analyzer.py:22-58  whether call_llm gives up a call that gets no answer:
\* the OpenRouter client is made with timeout=120.0 and raises; the Gemini
\* call is awaited with no timeout of its own and no request_options, so it
\* ends only if the client library sets a deadline by itself
CallTimesOut(provider) == IF provider = "openrouter" THEN {TRUE} ELSE BOOLEAN

\* the backend never answers the call of chunk b: when the call is given up
\* it raises and analyze_batch treats the error as any other; when it is not
\* the task stays at its await
AbNoAnswer(b) ==
    /\ ab.pc = "gather" /\ b \in 1..Len(ab.chunks)
    /\ ab.chunks[b].pc = "calling"
    /\ \E raised \in CallTimesOut(llm_provider) :
         ab' = [ab EXCEPT !.chunks[b] =
                  IF ~raised THEN [@ EXCEPT !.pc = "hung"]
                  ELSE IF IsRateLimit(TimeoutError.text) /\ @.attempt < MaxRetries - 1
                  THEN [@ EXCEPT !.pc = "sleeping", !.sleeps = @ + 1, !.err = TimeoutError,
                                 !.wait = WaitTime(TimeoutError.text)]
                  ELSE [@ EXCEPT !.pc = "failed", !.err = TimeoutError]]
    /\ UNCHANGED <<focus, batcher, tg_top, tg_old, chat_state, msg_rows, fb_top,
                   fb_processed, fb_group_state, fb_scraper, slots, cy, cycles,
                   watch, notif, commit_failed, reset_done, faults, exclude_words,
                   fn, sg, is_paused, reset_count, call, llm_provider>>

\* config.py:26  either provider is configured
InitTimeout ==
    /\ InitStore
    /\ focus = {} /\ fb_scraper = "none" /\ slots = {} /\ batcher = "code"
    /\ watch = NoItem
    /\ exclude_words = ExcludeWords /\ fn = IdleFn /\ sg = IdleSg
    /\ llm_provider \in {"gemini", "openrouter"}

\* the end of the call of chunk b, whatever it is
CallEnds(b) == AbReplies(b) \/ AbRaises(b) \/ AbNoAnswer(b)

NextTimeout ==
    \/ AbCall
    \/ AbGather
    \/ \E b \in 1..MaxTexts : AbReplies(b) \/ AbRaises(b) \/ AbWakes(b) \/ AbNoAnswer(b)

\* the event loop runs every task that can go on: a call ends in one of the
\* three ways, a sleep ends, gather returns when its tasks have ended
SpecTimeout ==
    /\ InitTimeout /\ [][NextTimeout]_vars
    /\ \A b \in 1..MaxTexts : WF_vars(CallEnds(b)) /\ WF_vars(AbWakes(b))
    /\ WF_vars(AbGather)

----------------------------------------------------------------------------
(* A cycle whose call of analyze_messages_batch is followed chunk by chunk *)

\* a caller that goes on as soon as the first wave has been gathered
ResolvedAfterFirstWave(a) == a.pc = "returned" \/ (a.pc = "gather" /\ a.group_start > 1)

\* main.py:129, 311  await analyze_messages_batch(...): the cycle goes on
\* when the call has returned
Resolved(a) == a.pc = "returned"

\* main.py:125-129, 310-311  texts_to_analyze is built from the filtered
\* items and analyze_messages_batch is called: the first wave starts
ClassifyCall(s) ==
    /\ cy[s].pc = "classify"
    /\ ab.pc = "idle"
    /\ LET batches == Batches(Len(cy[s].filtered), BatchSize)
           chunks == [b \in 1..Len(batches) |-> NewChunk]
       IN  ab' = IF batches = <<>>
                 THEN [IdleAb EXCEPT !.pc = "returned", !.success = TRUE,
                                     !.batch_size = BatchSize]
                 ELSE [IdleAb EXCEPT !.pc = "gather", !.batches = batches,
                                     !.texts = [j \in 1..Len(cy[s].filtered) |-> j],
                                     !.batch_size = BatchSize,
                                     !.chunks = Dispatch(chunks, GroupAt(1, Len(batches)))]
    /\ cy' = [cy EXCEPT ![s].pc = "classifying"]
    /\ UNCHANGED <<focus, batcher, tg_top, tg_old, chat_state, msg_rows, fb_top,
                   fb_processed, fb_group_state, fb_scraper, slots, cycles, watch,
                   notif, commit_failed, reset_done, faults, exclude_words, fn, sg,
                   is_paused, reset_count, call, llm_provider>>

\* main.py:129-189 and 311-357  the call has returned: what Classify does
\* with the pair that analyze_messages_batch returned; the locals of the
\* call are gone with it
ClassifyReturn(s) ==
    /\ cy[s].pc = "classifying"
    /\ Resolved(ab)
    /\ ab' = IF ab.pc = "returned" THEN IdleAb ELSE ab
    /\ LET c == cy[s]
           total == Len(c.all_messages)
           n == Len(c.filtered)
           got == [c EXCEPT !.results = ab.all_results, !.success = ab.success,
                            !.chunk_failed = \E b \in 1..Len(ab.chunks) :
                                                ab.chunks[b].pc = "failed"]
           leads_list == LeadsList(c.filtered, ab.all_results)
       IN  IF ~ab.success
           THEN /\ cy' = [cy EXCEPT ![s] = Abort(got, total, n)]
                /\ UNCHANGED <<msg_rows, faults>>
           ELSE \E written \in (IF c.platform = "tg" THEN UpTo(Len(leads_list))
                                                      ELSE {Len(leads_list)}) :
                  /\ faults' = IF written < Len(leads_list) THEN faults + 1 ELSE faults
                  /\ msg_rows' = IF c.platform = "tg"
                                 THEN UpdateLeadStatus(msg_rows, leads_list, written)
                                 ELSE msg_rows
                  /\ cy' = [cy EXCEPT ![s] =
                       IF written < Len(leads_list) THEN Finish(got, "error")
                       ELSE [got EXCEPT !.leads = leads_list,
                                        !.pc = IF leads_list # <<>> THEN "notify"
                                                                     ELSE "commit"]]
    /\ UNCHANGED <<focus, batcher, tg_top, tg_old, chat_state, fb_top, fb_processed,
                   fb_group_state, fb_scraper, slots, cycles, watch, notif,
                   commit_failed, reset_done, exclude_words, fn, sg, is_paused,
                   reset_count, call, llm_provider>>

NextWaves ==
    \/ \E c \in Chats : NewMessage(c)
    \/ NewPost
    \/ AbGather
    \/ \E b \in 1..MaxTexts : AbReplies(b) \/ AbRaises(b) \/ AbWakes(b)
    \/ \E s \in Slots :
         \/ RunTelegramCycle(s)
         \/ GetFolderChats(s)
         \/ FetchPeer(s)
         \/ FilterSave(s)
         \/ RunFacebookCycle(s)
         \/ GetUserGroups(s)
         \/ ScrapeFilter(s)
         \/ Raise(s)
         \/ ClassifyCall(s)
         \/ ClassifyReturn(s)
         \/ NotifyLeads(s)
         \/ CommitTelegram(s)
         \/ CommitFacebook(s)
         \/ Return(s)

SpecWaves == Init /\ [][NextWaves]_vars

----------------------------------------------------------------------------
(* The Content Filter on its own: src/processing/filter.py, src/main.py:85-94 *)

\* config.yaml filter.exclude_words as an operator may write it
YamlChoices == {{}, YamlExcludeWords, {<<"a">>, <<"B">>}}

\* the lists that filter_messages can be given
InputLists == UNION {[1..n -> Items] : n \in 0..MaxLen}

\* filter.py:6-27  filter_messages(messages)
ApplyFilterMessages ==
    /\ fn.op = "none"
    /\ fn' = [fn EXCEPT !.op = "filter", !.filtered = FilterMessages(fn.input)]
    /\ UNCHANGED <<focus, batcher, tg_top, tg_old, chat_state, msg_rows, fb_top,
                   fb_processed, fb_group_state, fb_scraper, slots, cy, cycles,
                   watch, notif, commit_failed, reset_done, faults, ab,
                   exclude_words, sg, is_paused, reset_count, call, llm_provider>>

\* main.py:85-94  the deduplication of what filter_messages returned
ApplyDeduplicate ==
    /\ fn.op = "filter"
    /\ fn' = [fn EXCEPT !.op = "dedup", !.deduplicated = Deduplicate(fn.filtered)]
    /\ UNCHANGED <<focus, batcher, tg_top, tg_old, chat_state, msg_rows, fb_top,
                   fb_processed, fb_group_state, fb_scraper, slots, cy, cycles,
                   watch, notif, commit_failed, reset_done, faults, ab,
                   exclude_words, sg, is_paused, reset_count, call, llm_provider>>

\* config.py:44 loads the words; a list is about to be filtered
InitFilter ==
    /\ InitStore
    /\ focus = {} /\ fb_scraper = "none" /\ slots = {} /\ batcher = "code"
    /\ watch = NoItem
    /\ \E yaml \in YamlChoices, input \in InputLists :
          /\ exclude_words = ConfigExcludeWords(yaml) /\ llm_provider = "gemini"
          /\ fn = [IdleFn EXCEPT !.yaml = yaml, !.input = input]
    /\ sg = IdleSg

NextFilter == ApplyFilterMessages \/ ApplyDeduplicate

SpecFilter == InitFilter /\ [][NextFilter]_vars

----------------------------------------------------------------------------
(* scrape_group on its own: src/facebook/scraper.py:355-471 *)

\* the texts of the posts of a group: two of them agree in their first
\* HashPrefix characters
PostTexts == {<<"a">>, <<"a", "b">>, <<"b">>}

\* the pages of a group, newest article first: the article at position j is a
\* post with an id of its own, or one that _parse_article_fast cannot read
\* (post_id 0)
Feeds ==
    UNION {{[j \in 1..n |-> [post_id |-> IF texts[j] = <<>> THEN 0 ELSE n - j + 1,
                             text |-> texts[j]]] :
                texts \in [1..n -> PostTexts \cup {<<>>}]} : n \in 0..MaxFeed}

\* scraper.py:355-399  scrape_group starts: the page is opened and shows its
\* first articles
InitScraper ==
    /\ InitStore
    /\ focus = {} /\ fb_scraper = "none" /\ slots = {} /\ batcher = "code"
    /\ watch = NoItem
    /\ exclude_words = ExcludeWords /\ fn = IdleFn /\ llm_provider = "gemini"
    /\ \E feed \in Feeds, limit \in {PostsPerGroup, MaxFeed} :
         \E processed \in SUBSET {feed[j].post_id : j \in 1..Len(feed)} \ {{0}},
            first \in 0..Len(feed) :
            sg = [IdleSg EXCEPT !.pc = "scanning", !.feed = feed,
                                !.processed_ids = processed,
                                !.limit_per_group = limit, !.loaded = first]

\* scraper.py:401-457  one iteration of the while loop: the new articles are
\* parsed; the scan returns its posts after a processed post or at the limit,
\* else it scrolls and waits for more articles
SgScan ==
    /\ sg.pc = "scanning"
    /\ LET articles == SubSeq(sg.feed, 1, sg.loaded)
           new_articles == SubSeq(articles, sg.parsed_count + 1, Len(articles))
           st == [ParseArticles(new_articles, sg) EXCEPT !.parsed_count = Len(articles)]
       IN  IF st.hit_processed \/ st.posts_found >= st.limit_per_group
           THEN sg' = [st EXCEPT !.pc = "returned"]
           ELSE \E more \in 0..(Len(sg.feed) - sg.loaded) :
                  LET empty == IF more > 0 THEN 0 ELSE st.consecutive_empty + 1
                      scrolled == [st EXCEPT !.scrolls = @ + 1, !.loaded = @ + more,
                                             !.consecutive_empty = empty]
                      next == [scrolled EXCEPT !.scroll_attempts = @ + 1]
                  IN  sg' = IF more = 0 /\ empty >= MaxEmptyScrolls
                            THEN [scrolled EXCEPT !.pc = "returned"]
                            ELSE IF next.scroll_attempts >= MaxScrolls
                                 THEN [next EXCEPT !.pc = "returned"]
                                 ELSE next
    /\ UNCHANGED <<focus, batcher, tg_top, tg_old, chat_state, msg_rows, fb_top,
                   fb_processed, fb_group_state, fb_scraper, slots, cy, cycles,
                   watch, notif, commit_failed, reset_done, faults, ab,
                   exclude_words, fn, is_paused, reset_count, call, llm_provider>>

\* scraper.py:468-471 and 485-496  an exception of the page returns [], and
\* the 45 s timeout of asyncio.wait_for drops what the scan had collected
SgAbandon ==
    /\ sg.pc = "scanning"
    /\ sg' = [sg EXCEPT !.pc = "failed", !.posts = <<>>]
    /\ UNCHANGED <<focus, batcher, tg_top, tg_old, chat_state, msg_rows, fb_top,
                   fb_processed, fb_group_state, fb_scraper, slots, cy, cycles,
                   watch, notif, commit_failed, reset_done, faults, ab,
                   exclude_words, fn, is_paused, reset_count, call, llm_provider>>

NextScraper == SgScan \/ SgAbandon

SpecScraper == InitScraper /\ [][NextScraper]_vars

----------------------------------------------------------------------------
(* The scheduler and the operator's commands: src/main.py:417-487,
   src/telegram/bot.py:89-135 *)

\* main.py:463-477  the scheduler has one job per platform, and runs one
\* instance of a job at a time: the slot of the job's coroutine
JobSlot(p) == IF p = "tg" THEN 1 ELSE 2

\* a tick that starts the Telegram cycle whatever the operator has said
ScheduledTelegramAlways == RunTelegramCycle(JobSlot("tg"))

\* main.py:422-426  scheduled_telegram: a tick of the interval job
ScheduledTelegram ==
    /\ ~is_paused["tg"]
    /\ RunTelegramCycle(JobSlot("tg"))

\* main.py:441-445  scheduled_facebook ("fb" \in focus: config.facebook_enabled)
ScheduledFacebook ==
    /\ ~is_paused["fb"]
    /\ RunFacebookCycle(JobSlot("fb"))

\* bot.py:117-125  /pause and /pausefb
HandlePause(p) ==
    /\ is_paused' = [is_paused EXCEPT ![p] = TRUE]
    /\ UNCHANGED <<focus, batcher, tg_top, tg_old, chat_state, msg_rows, fb_top,
                   fb_processed, fb_group_state, fb_scraper, slots, cy, cycles,
                   watch, notif, commit_failed, reset_done, faults, ab,
                   exclude_words, fn, sg, reset_count, call, llm_provider>>

\* bot.py:127-135  /resume and /resumefb
HandleResume(p) ==
    /\ is_paused' = [is_paused EXCEPT ![p] = FALSE]
    /\ UNCHANGED <<focus, batcher, tg_top, tg_old, chat_state, msg_rows, fb_top,
                   fb_processed, fb_group_state, fb_scraper, slots, cy, cycles,
                   watch, notif, commit_failed, reset_done, faults, ab,
                   exclude_words, fn, sg, reset_count, call, llm_provider>>

\* main.py:405-414, 463-477  both platforms are enabled and scheduled; each
\* chat holds a message and the group a post, and nothing new arrives
InitPause ==
    /\ tg_top = [c \in Chats |-> 1] /\ fb_top = 1
    /\ tg_old = [c \in Chats |-> 0]
    /\ chat_state = [c \in Chats |-> None]
    /\ msg_rows = NoRows
    /\ fb_processed = {} /\ fb_group_state = 0 /\ call = IdleCall
    /\ cy = [s \in Slots |-> IdleCy]
    /\ cycles = 0 /\ notif = 0 /\ commit_failed = FALSE /\ reset_done = FALSE
    /\ faults = 0
    /\ ab = IdleAb
    /\ is_paused = [p \in {"tg", "fb"} |-> FALSE]
    /\ reset_count = None
    /\ focus = {"tg", "fb"}
    /\ fb_scraper \in {"none", "started"}
    /\ slots = {JobSlot("tg"), JobSlot("fb")}
    /\ InitConfig
    /\ batcher = "code" /\ watch = NoItem

NextPause ==
    \/ ScheduledTelegram
    \/ ScheduledFacebook
    \/ \E p \in {"tg", "fb"} : HandlePause(p) \/ HandleResume(p)
    \/ \E s \in Slots :
         \/ GetFolderChats(s)
         \/ FetchPeer(s)
         \/ FilterSave(s)
         \/ GetUserGroups(s)
         \/ ScrapeFilter(s)
         \/ Raise(s)
         \/ Classify(s)
         \/ NotifyLeads(s)
         \/ CommitTelegram(s)
         \/ CommitFacebook(s)
         \/ Return(s)

SpecPause == InitPause /\ [][NextPause]_vars

----------------------------------------------------------------------------
(* Overlapping Telegram cycles: the interval job and a manual scan *)

\* a message is posted while a cycle is running, in a chat c that is in use
NewMessageInFlight(c) ==
    /\ "tg" \in focus
    /\ ~Quiet
    /\ tg_top[c] > 0
    /\ tg_top[c] < MaxMsgId
    /\ tg_top' = [tg_top EXCEPT ![c] = @ + 1]
    /\ UNCHANGED <<focus, batcher, tg_old, chat_state, msg_rows, fb_top,
                   fb_processed, fb_group_state, fb_scraper, slots, cy, cycles,
                   watch, notif, commit_failed, reset_done, faults, ab,
                   exclude_words, fn, sg, is_paused, reset_count, call, llm_provider>>

\* bot.py:89-95, 105-112  /scan and the inline button: the cycle is started
\* as a task of its own, whatever else is running
HandleScan ==
    /\ "tg" \in focus
    /\ \E s \in Slots \ {JobSlot("tg")} : RunTelegramCycle(s)

\* main.py:463-470  only Telegram is scanned; the job of the scheduler and the
\* task of a manual scan; one chat is in use, where one more message can
\* arrive while the cycles run; no call fails
InitOverlap ==
    /\ tg_top = [c \in Chats |-> IF c = 1 THEN MaxMsgId - 1 ELSE 0]
    /\ tg_old = [c \in Chats |-> 0]
    /\ chat_state = [c \in Chats |-> None]
    /\ msg_rows = NoRows
    /\ fb_top = 0
    /\ fb_processed = {} /\ fb_group_state = 0 /\ call = IdleCall
    /\ cy = [s \in Slots |-> IdleCy]
    /\ cycles = 0 /\ notif = 0 /\ commit_failed = FALSE /\ reset_done = FALSE
    /\ faults = MaxFaults
    /\ ab = IdleAb
    /\ is_paused = [p \in {"tg", "fb"} |-> FALSE]
    /\ reset_count = None
    /\ InitConfig
    /\ focus = {"tg"}
    /\ fb_scraper = "none"
    /\ slots = Slots
    /\ batcher = "code" /\ watch = NoItem

NextOverlap ==
    \/ \E c \in Chats : NewMessageInFlight(c)
    \/ ScheduledTelegram
    \/ HandleScan
    \/ ResetChatStates
    \/ \E s \in Slots :
         \/ GetFolderChats(s)
         \/ FetchPeer(s)
         \/ FilterSave(s)
         \/ Classify(s)
         \/ NotifyLeads(s)
         \/ CommitTelegram(s)
         \/ Return(s)

SpecOverlap == InitOverlap /\ [][NextOverlap]_vars

----------------------------------------------------------------------------
(* Properties *)

\* the cycle that has ended in slot s, before its coroutine returns
Ended(s) == cy[s].pc = "done"

\* C1: a cycle whose classifier call returned success = false has written no
\* watermark, no processed record and no group state, has sent one stats
\* notification with analyzed = 0 and leads = 0, and leaves in the store the
\* watermarks and the processed set that it read
C1_AbortCommitsNothing ==
    \A s \in Slots : cy[s].outcome = "aborted" =>
        /\ ~cy[s].wrote
        /\ cy[s].stats = 1
        /\ cy[s].stats_args[3] = 0 /\ cy[s].stats_args[4] = 0
        /\ cy[s].platform = "tg" =>
              \A c \in Range(cy[s].peers) : chat_state[c] = cy[s].read[c]
        /\ cy[s].platform = "fb" =>
              /\ \A p \in Range(cy[s].new_posts) : (\A row \in fb_processed : row[2] # p[2])
              /\ fb_group_state # cy[s].i

\* an aborted Telegram cycle that had read a watermark and got partial results
C1_Aborted ==
    \E s \in Slots :
        /\ cy[s].outcome = "aborted" /\ cy[s].platform = "tg"
        /\ cy[s].results # {}
        /\ \E c \in Chats : cy[s].read[c] \notin {None, Unread}

\* C2: the success flag returned by analyze_messages_batch is true only if no
\* chunk of the call failed
C2_SuccessMeansEveryChunk ==
    \A s \in Slots : cy[s].success => ~cy[s].chunk_failed

\* C3: a cycle in which a chunk failed advances no watermark, adds no
\* processed record, sends no leads notification and writes no verdict, and
\* the rows of the items that passed the filter exist
C3_ChunkFailureCommitsNothing ==
    \A s \in Slots : cy[s].chunk_failed =>
        /\ ~cy[s].wrote
        /\ cy[s].leads_sent = 0
        /\ cy[s].leads = <<>>
        /\ cy[s].platform = "tg" =>
              /\ \A c \in Range(cy[s].peers) : chat_state[c] = cy[s].read[c]
              /\ watch \in Range(cy[s].filtered) => msg_rows.null + msg_rows.lead >= 1
        /\ cy[s].platform = "fb" =>
              \A p \in Range(cy[s].new_posts) : (\A row \in fb_processed : row[2] # p[2])

\* C4 as stated: with any mix of failures, one source item is included in a
\* leads notification at most once
C4_AtMostOnce == notif <= 1

\* C4: one source item is included in a second leads notification only after a
\* commit phase that failed to store the watermark of its chat, or the
\* processed records, after a notification that included it
C4_AtMostOnceAfterCommit == notif > 1 => commit_failed

\* the item was notified by the first cycle, and the second cycle has sent
\* its leads without it and committed
C4_NotifiedThenCommitted ==
    /\ notif = 1 /\ cycles = 2 /\ ~commit_failed
    /\ \E s \in Slots :
         /\ cy[s].outcome = "ok" /\ cy[s].leads_sent = 1
         /\ watch \notin Range(cy[s].leads)

\* C5: after a Telegram cycle that committed, every message of a chat between
\* what the cycle started from (the watermark it read or, with no watermark,
\* the 24-hour cutoff) and the watermark it committed was passed to the filter
C5_NoMessageLost ==
    \A s \in Slots : (cy[s].outcome = "ok" /\ cy[s].platform = "tg") =>
        \A j \in 1..Len(cy[s].chats_to_update) :
            LET c == cy[s].chats_to_update[j][1]
                committed == cy[s].chats_to_update[j][2]
                lo == IF cy[s].read[c] = None THEN tg_old[c] ELSE cy[s].read[c]
            IN  \A id \in (lo + 1)..committed : <<c, id>> \in Range(cy[s].all_messages)

\* C6: a cycle that has ended, on whatever path, has sent exactly one stats
\* summary
C6_ExactlyOneStats == \A s \in Slots : Ended(s) => cy[s].stats = 1

\* C7: a call of update_last_message_id never lowers the stored watermark of
\* a chat, and calling it twice with the same value gives the state of one call
C7_MonotonicIdempotent ==
    [][/\ \A c \in Chats : chat_state[c] # None => chat_state'[c] >= chat_state[c]
       /\ \A c \in Chats, n \in 1..MaxMsgId :
            UpdateLastMessageId(UpdateLastMessageId(chat_state, c, n), c, n)
              = UpdateLastMessageId(chat_state, c, n)]_vars

\* C8: a processed record is never removed, and no post that has a record is
\* among the posts a Facebook cycle submits to the classifier or notifies
C8_ProcessedIsTerminal ==
    [][/\ fb_processed \subseteq fb_processed'
       /\ \A s \in Slots :
            (cy'[s].platform = "fb" /\ cy'[s].pc \in {"classify", "notify"}) =>
               \A p \in Range(cy'[s].filtered) \cup Range(cy'[s].leads) :
                   (\A row \in fb_processed' : row[2] # p[2])]_vars

\* a Facebook cycle is about to classify, and its scrape had returned a post
\* that has a record
C8_ScrapedProcessedPost ==
    \E s \in Slots :
        /\ cy[s].platform = "fb" /\ cy[s].pc = "classify"
        /\ \E p \in cy[s].fetched : (\E row \in fb_processed : row[2] = p[2])

\* C9: after a cycle whose classification did not fail, also when the filter
\* left nothing to classify, every chat that returned messages has its
\* watermark at the maximum fetched id and every new post has a record
C9_FetchedIsCovered ==
    \A s \in Slots :
        (Ended(s) /\ cy[s].outcome \in {"ok", "all_filtered"} /\ ~cy[s].chunk_failed) =>
            /\ cy[s].platform = "tg" =>
                  \A j \in 1..Len(cy[s].chats_to_update) :
                      chat_state[cy[s].chats_to_update[j][1]] = cy[s].chats_to_update[j][2]
            /\ cy[s].platform = "fb" =>
                  \A p \in Range(cy[s].new_posts) : (\E row \in fb_processed : row[2] = p[2])

\* C10: after a Telegram cycle that did not fail in classification, a chat
\* that had no watermark and returned messages has its watermark at the
\* maximum id fetched from it, whatever the 24-hour window and the filter left
C10_BootstrapCommitsMax ==
    \A s \in Slots :
        (/\ Ended(s) /\ cy[s].platform = "tg"
         /\ cy[s].outcome \in {"ok", "all_filtered", "nothing_fetched"}) =>
            \A j \in 1..Len(cy[s].chats_to_update) :
                LET c == cy[s].chats_to_update[j][1]
                IN  cy[s].read[c] = None => chat_state[c] = cy[s].chats_to_update[j][2]

\* C11: a message that was older than 24 hours when its chat was scanned
\* without a watermark is in no cycle among the messages passed to the filter
\* (and so is not stored, classified or notified), in that cycle or later
C11_OldNeverPassed ==
    \A s \in Slots : cy[s].platform = "tg" =>
        \A m \in Range(cy[s].all_messages) \cup Range(cy[s].filtered) \cup Range(cy[s].leads) :
            m[2] > tg_old[m[1]]

\* after a reset the second cycle scans, again without a watermark, a chat
\* whose earlier scan had found messages older than 24 hours, and classifies
\* messages of it
C11_RescanAfterReset ==
    \E s \in Slots, c \in Chats :
        /\ reset_done /\ cycles = 2 /\ cy[s].pc = "classify"
        /\ tg_old[c] >= 1 /\ cy[s].read[c] = None
        /\ \E m \in Range(cy[s].filtered) : m[1] = c

C13_RetryOnlyOnRateLimit ==
    \A b \in 1..Len(ab.chunks) :
        LET ch == ab.chunks[b]
        IN  /\ ch.calls <= MaxRetries
            /\ ch.pc = "sleeping" => (ch.err.kind = "throttle" /\ ch.calls < MaxRetries)
            /\ (ch.err.kind = "other" /\ ch.pc # "ok") => ch.pc = "failed"
            /\ ch.calls = ch.sleeps + (IF ch.pc \in {"waiting", "sleeping"} THEN 0 ELSE 1)

\* C14: when analyze_messages_batch returns, every chunk was dispatched and
\* has ended, and the result holds the leads of every chunk that succeeded;
\* while it runs, every chunk of the waves started so far was dispatched
C14_FailureStopsNoChunk ==
    /\ ab.pc = "gather" =>
          \A b \in 1..Min(ab.group_start + MaxParallel - 1, Len(ab.chunks)) :
              ab.chunks[b].pc # "waiting"
    /\ ab.pc = "returned" =>
          /\ \A b \in 1..Len(ab.chunks) :
                ab.chunks[b].calls >= 1 /\ ab.chunks[b].pc \in {"ok", "failed"}
          /\ ab.all_results =
                UNION {ab.chunks[b].leads : b \in {x \in 1..Len(ab.chunks) : ab.chunks[x].pc = "ok"}}

\* the call has returned; a chunk of the first wave had failed, its sibling
\* and a chunk of the second wave have given leads
C14_FailedFirstWave ==
    /\ ab.pc = "returned" /\ Len(ab.chunks) > MaxParallel
    /\ ab.chunks[1].pc = "failed"
    /\ ab.chunks[2].pc = "ok" /\ ab.chunks[2].leads # {}
    /\ ab.chunks[MaxParallel + 1].pc = "ok" /\ ab.chunks[MaxParallel + 1].leads # {}

\* the store holds what the cycle in slot s had to commit
Committed(s) ==
    /\ cy[s].platform = "tg" =>
          \A j \in 1..Len(cy[s].chats_to_update) :
              chat_state[cy[s].chats_to_update[j][1]] = cy[s].chats_to_update[j][2]
    /\ cy[s].platform = "fb" =>
          /\ \A p \in Range(cy[s].new_posts) : (\E row \in fb_processed : row[2] = p[2])
          /\ fb_group_state = cy[s].i

\* C15: in a cycle whose chunks all succeeded, an item for which the backend
\* returned no result is not among the leads; when the backend returned no
\* result at all, no leads notification is sent and the cycle, unless a store
\* write fails, commits and reports all its items as analyzed
C15_EmptyResultIsSuccess ==
    \A s \in Slots :
        (/\ cy[s].filtered # <<>> /\ cy[s].pc \in {"notify", "commit", "done"}
         /\ cy[s].success /\ ~cy[s].chunk_failed) =>
            /\ \A i \in 1..Len(cy[s].filtered) :
                  i \notin cy[s].results => cy[s].filtered[i] \notin Range(cy[s].leads)
            /\ cy[s].results = {} =>
                  /\ cy[s].leads = <<>> /\ cy[s].leads_sent = 0
                  /\ cy[s].pc # "notify"
                  /\ (Ended(s) /\ cy[s].outcome # "error") =>
                        /\ cy[s].outcome = "ok" /\ Committed(s)
                        /\ cy[s].stats_args = <<Len(cy[s].all_messages), Len(cy[s].filtered),
                                                 Len(cy[s].filtered), 0>>

\* a Telegram cycle with several submitted items and no result has committed
C15_CommittedWithoutLeads ==
    \E s \in Slots :
        /\ Ended(s) /\ cy[s].outcome = "ok" /\ cy[s].platform = "tg"
        /\ Len(cy[s].filtered) >= 2 /\ cy[s].results = {} /\ ~cy[s].chunk_failed
        /\ cy[s].chats_to_update # <<>> /\ Committed(s)

\* C16: filter_messages returns exactly the items of its input, in their
\* order, whose text contains no exclusion word when letters are compared
\* without regard to case; an item is removed iff some word occurs in it
C16_ExclusionIsSubsequence ==
    fn.op # "none" =>
        LET CIContains(text, word) ==
                \E j \in 0..(Len(text) - Len(word)) :
                    \A k \in 1..Len(word) : LowerChar(text[j + k]) = LowerChar(word[k])
            Kept == {i \in 1..Len(fn.input) :
                        \A w \in fn.yaml : ~CIContains(TextOf(fn.input[i]), w)}
            Nth(j) == CHOOSE i \in Kept : Cardinality({k \in Kept : k <= i}) = j
        IN  /\ Len(fn.filtered) = Cardinality(Kept)
            /\ \A j \in 1..Len(fn.filtered) : fn.filtered[j] = fn.input[Nth(j)]

\* the word "B" of the configuration has removed the post whose text holds a
\* lower-case b from between two posts that are kept, in their order
C16_RemovedAndKept ==
    /\ fn.op = "filter" /\ fn.yaml = YamlExcludeWords
    /\ fn.input = <<<<FbChat, 3>>, <<FbChat, 2>>, <<FbChat, 1>>>>
    /\ fn.filtered = <<<<FbChat, 3>>, <<FbChat, 1>>>>

\* C17: the deduplication keeps, in their order, exactly the first
\* occurrences of each text after trimming leading and trailing whitespace;
\* no two surviving items have the same trimmed text
C17_TrimmedTextsUnique ==
    fn.op = "dedup" =>
        LET Trim(text) ==
                LET nb == {j \in 1..Len(text) : text[j] # " "}
                IN  IF nb = {} THEN <<>>
                    ELSE SubSeq(text, CHOOSE a \in nb : \A b \in nb : a <= b,
                                      CHOOSE a \in nb : \A b \in nb : a >= b)
            Key(i) == Trim(TextOf(fn.filtered[i]))
            First == {i \in 1..Len(fn.filtered) : \A k \in 1..(i - 1) : Key(k) # Key(i)}
            Nth(j) == CHOOSE i \in First : Cardinality({k \in First : k <= i}) = j
        IN  /\ Len(fn.deduplicated) = Cardinality(First)
            /\ \A j \in 1..Len(fn.deduplicated) : fn.deduplicated[j] = fn.filtered[Nth(j)]

\* C18: with no exclusion words the deduplication keeps, in their order,
\* exactly the first occurrences of each text when letter case is ignored:
\* case variants of one text and one other text leave two items
C18_CaseVariantsCollapse ==
    (fn.op = "dedup" /\ fn.yaml = {}) =>
        LET Key(i) == Lower(TextOf(fn.input[i]))
            First == {i \in 1..Len(fn.input) : \A k \in 1..(i - 1) : Key(k) # Key(i)}
            Nth(j) == CHOOSE i \in First : Cardinality({k \in First : k <= i}) = j
        IN  /\ Len(fn.deduplicated) = Cardinality(First)
            /\ \A j \in 1..Len(fn.deduplicated) : fn.deduplicated[j] = fn.input[Nth(j)]

\* C19: a cycle sends the leads notification at most once; a cycle that has
\* ended without an error has sent it exactly when some item was flagged; it
\* is sent only when every chunk of the classification succeeded, and it
\* holds exactly the flagged items, each once, in the order of submission
C19_OneNotificationAfterSuccess ==
    \A s \in Slots :
        /\ cy[s].leads_sent <= 1
        /\ (Ended(s) /\ cy[s].outcome = "ok") =>
              (cy[s].leads_sent = 1 <=> cy[s].results # {})
        /\ cy[s].leads_sent = 1 =>
              LET flagged == cy[s].results
                  Nth(j) == CHOOSE i \in flagged : Cardinality({k \in flagged : k <= i}) = j
              IN  /\ cy[s].success /\ ~cy[s].chunk_failed
                  /\ flagged # {}
                  /\ Len(cy[s].leads) = Cardinality(flagged)
                  /\ \A j \in 1..Len(cy[s].leads) : cy[s].leads[j] = cy[s].filtered[Nth(j)]

\* C20: when a cycle of either platform calls the classifier, a row with null
\* verdict exists for each item that passed the filter, and the row is still
\* there after a classification failure or a later error of the cycle
C20_RowsBeforeClassification ==
    \A s \in Slots : watch \in Range(cy[s].filtered) =>
        /\ cy[s].pc = "classify" => msg_rows.null >= 1
        /\ (Ended(s) /\ cy[s].outcome = "aborted") => msg_rows.null >= 1
        /\ cy[s].pc \in {"notify", "commit", "done"} => msg_rows.null + msg_rows.lead >= 1

\* C21 as stated: when a scan of a group meets a processed post as its k-th
\* parsed post, it returns at once without a further scroll, no post at
\* position k or later is in the result, and every post at positions 1 to
\* k-1 is in the result
C21_EarlyStop ==
    (sg.pc = "returned" /\ sg.hit_processed) =>
        LET k == Len(sg.parsed)
            all_posts == SelectSeq(sg.feed, LAMBDA a : a.post_id # 0)
        IN  /\ k >= 1 /\ sg.parsed = SubSeq(all_posts, 1, k)
            /\ sg.parsed[k].post_id \in sg.processed_ids
            /\ sg.scrolls = sg.scrolls_at_hit
            /\ \A j \in k..Len(all_posts) : all_posts[j] \notin Range(sg.posts)
            /\ sg.posts = SubSeq(sg.parsed, 1, k - 1)

\* C21: as above, but of the posts at positions 1 to k-1 the result holds, in
\* their order, those whose text does not begin like the text of an earlier
\* post of the scan
C21_EarlyStopKeepsFirstOfEachText ==
    (sg.pc = "returned" /\ sg.hit_processed) =>
        LET k == Len(sg.parsed)
            all_posts == SelectSeq(sg.feed, LAMBDA a : a.post_id # 0)
            Key(j) == SubSeq(sg.parsed[j].text, 1, Min(Len(sg.parsed[j].text), HashPrefix))
            First == {j \in 1..(k - 1) : \A i \in 1..(j - 1) : Key(i) # Key(j)}
            Nth(n) == CHOOSE j \in First : Cardinality({i \in First : i <= j}) = n
        IN  /\ k >= 1 /\ sg.parsed = SubSeq(all_posts, 1, k)
            /\ sg.parsed[k].post_id \in sg.processed_ids
            /\ sg.scrolls = sg.scrolls_at_hit
            /\ \A j \in k..Len(all_posts) : all_posts[j] \notin Range(sg.posts)
            /\ Len(sg.posts) = Cardinality(First)
            /\ \A n \in 1..Len(sg.posts) : sg.posts[n] = sg.parsed[Nth(n)]

\* a scan has scrolled, met a processed post as its third post and returned
\* the two posts before it, with an unprocessed post left behind it
C21_StoppedAtThird ==
    /\ sg.pc = "returned" /\ sg.hit_processed /\ sg.scrolls >= 1
    /\ Len(sg.parsed) = 3 /\ Len(sg.posts) = 2
    /\ \E j \in 1..Len(sg.feed) :
          /\ j > sg.parsed_count
          /\ sg.feed[j].post_id # 0 /\ sg.feed[j].post_id \notin sg.processed_ids

\* C22: while a platform is paused no tick of its job starts a cycle; a pause
\* or resume changes no cycle, so a cycle in flight goes on to its end; a
\* platform that is not paused, whatever the other is, has its tick start a
\* cycle when its job is not running
C22_PauseStopsOnlyNewScheduledCycles ==
    /\ [](\A p \in {"tg", "fb"} :
            (~is_paused[p] /\ cy[JobSlot(p)].pc = "idle" /\ cycles < MaxCycles) =>
                IF p = "tg" THEN ENABLED ScheduledTelegram ELSE ENABLED ScheduledFacebook)
    /\ [][/\ \A p \in {"tg", "fb"} :
                (is_paused[p] /\ cy[JobSlot(p)].pc = "idle") => cy'[JobSlot(p)].pc = "idle"
          /\ is_paused' # is_paused => cy' = cy
          /\ \A s \in Slots :
                (cy[s].pc \notin {"idle", "done"} /\ cy'[s] # cy[s]) =>
                    /\ cy'[s].pc # "idle"
                    /\ cy'[s].outcome \in {"none", cy[s].outcome} \/ cy'[s].pc = "done"]_vars

\* Telegram is paused and its cycle, which was in flight at the pause, has
\* classified its messages and is about to commit, while the Facebook cycle
\* that a tick has started is in flight
C22_PausedInFlight ==
    /\ is_paused["tg"] /\ ~is_paused["fb"]
    /\ cy[JobSlot("tg")].pc = "commit" /\ cy[JobSlot("tg")].chats_to_update # <<>>
    /\ cy[JobSlot("fb")].pc = "classify"

\* C23: a reset removes the watermark of every chat and returns how many
\* there were, and from then until the next cycle starts no chat has a
\* watermark, so that this cycle scans every chat as a new one
C23_ResetThenBootstrap ==
    /\ [](reset_count # None => \A c \in Chats : chat_state[c] = None)
    /\ [][(/\ reset_count' # None /\ cy' = cy
           /\ (reset_count' # reset_count \/ chat_state' # chat_state)) =>
              /\ reset_count' = Cardinality({c \in Chats : chat_state[c] # None})
              /\ \A c \in Chats : chat_state'[c] = None]_vars

\* C24: a leads notification, delivered or not, is followed by the commit of
\* the same watermarks and posts, and a cycle whose stats were not delivered
\* has ended as a committed cycle: no failed delivery ends a cycle
C24_DeliveryFailureNotFatal ==
    /\ [](\A s \in Slots :
            /\ (Ended(s) /\ "stats" \in cy[s].undelivered) =>
                  /\ cy[s].outcome = "ok" /\ Committed(s)
            /\ (cy[s].undelivered # {} /\ ~Ended(s)) => cy[s].pc = "commit")
    /\ [][\A s \in Slots :
            (cy[s].pc = "notify" /\ cy'[s] # cy[s]) =>
                /\ cy'[s].pc = "commit"
                /\ cy'[s].chats_to_update = cy[s].chats_to_update
                /\ cy'[s].new_posts = cy[s].new_posts
                /\ cy'[s].leads = cy[s].leads]_vars

\* the leads notification of a Telegram cycle was not delivered, and the
\* cycle has advanced its watermarks and ended as usual
C24_CommittedAfterLostLeads ==
    \E s \in Slots :
        /\ Ended(s) /\ cy[s].outcome = "ok" /\ cy[s].platform = "tg"
        /\ cy[s].undelivered = {"leads"} /\ cy[s].leads_sent = 1
        /\ cy[s].chats_to_update # <<>> /\ Committed(s) /\ cy[s].stats = 1

\* C25: a cycle in which an exception was raised, at whatever step, has ended
\* inside its coroutine with no watermark advanced and no processed record
\* added by it, and it returns, after which a cycle can be started again
C25_ExceptionEndsWithoutCommit ==
    \A s \in Slots :
        (Ended(s) /\ cy[s].outcome = "error") =>
            /\ ~cy[s].wrote
            /\ cy[s].platform = "tg" =>
                  \A c \in Chats : cy[s].read[c] # Unread => chat_state[c] = cy[s].read[c]
            /\ cy[s].platform = "fb" =>
                  \A p \in Range(cy[s].new_posts) : (\A row \in fb_processed : row[2] # p[2])
            /\ ENABLED Return(s)

\* C26: when the fetch from a chat fails, before or after some of its messages
\* were read, the cycle goes on to the next chat, and the cycle does not
\* advance the watermark of that chat
C26_FailedSourceKeepsWatermark ==
    /\ [](\A s \in Slots : \A c \in cy[s].failed_peers :
            /\ \A j \in 1..Len(cy[s].chats_to_update) : cy[s].chats_to_update[j][1] # c
            /\ chat_state[c] = cy[s].read[c])
    /\ [][\A s \in Slots :
            cy'[s].failed_peers \ cy[s].failed_peers # {} =>
                /\ cy'[s].pc \in {"fetch", "filter"}
                /\ cy'[s].i = cy[s].i + 1]_vars

\* C27: mark_facebook_post_processed is idempotent: a call with a post id that
\* is already recorded, whatever group id it passes, leaves the table as it
\* was, so that two calls leave what one call leaves; and the table never
\* holds two rows of one post id (the insert that would raise is never made)
C27_MarkIsIdempotent ==
    /\ (call.op = "mark" /\ \E row \in call.before : row[2] = call.posts[1][2])
            => fb_processed = call.before
    /\ call.op = "mark" =>
            \A group_id \in GroupIds :
                MarkFacebookPostProcessed(fb_processed, call.posts[1][2], group_id)
                    = fb_processed
    /\ \A r1, r2 \in fb_processed : r1[2] = r2[2] => r1 = r2

\* C27 witness: a second call for a recorded post id, with another group id
\* than the recorded one, has been made
C27_MarkedAgain ==
    /\ call.op = "mark"
    /\ \E row \in call.before : row[2] = call.posts[1][2] /\ row[1] # call.posts[1][1]

\* C28 as stated: the batch call leaves the table that the single calls leave,
\* made for the pairs of the list in any order
C28_BatchIsSinglesInAnyOrder ==
    call.op = "batch" =>
        LET n == Len(call.posts)
            RECURSIVE Singles(_, _)
            Singles(table, posts) ==
                IF posts = <<>> THEN table
                ELSE Singles(MarkFacebookPostProcessed(table, Head(posts)[2], Head(posts)[1]),
                             Tail(posts))
        IN  \A f \in {g \in [1..n -> 1..n] : \A i, j \in 1..n : g[i] = g[j] => i = j} :
                fb_processed = Singles(call.before, [i \in 1..n |-> call.posts[f[i]]])

\* C28 amended: the batch call leaves the table that the single calls leave
\* when made in the order of the list; in any other order the single calls
\* record the same post ids, and the same table when no post id comes with
\* two group ids in the list
C28_BatchIsSinglesInListOrder ==
    call.op = "batch" =>
        LET n == Len(call.posts)
            RECURSIVE Singles(_, _)
            Singles(table, posts) ==
                IF posts = <<>> THEN table
                ELSE Singles(MarkFacebookPostProcessed(table, Head(posts)[2], Head(posts)[1]),
                             Tail(posts))
            agree == \A i, j \in 1..n :
                        call.posts[i][2] = call.posts[j][2] => call.posts[i] = call.posts[j]
        IN  /\ fb_processed = Singles(call.before, call.posts)
            /\ \A f \in {g \in [1..n -> 1..n] : \A i, j \in 1..n : g[i] = g[j] => i = j} :
                  LET singly == Singles(call.before, [i \in 1..n |-> call.posts[f[i]]])
                  IN  /\ {row[2] : row \in singly} = {row[2] : row \in fb_processed}
                      /\ agree => singly = fb_processed

\* C28 witness: a batch call was made with a list that holds a recorded post
\* id, and one post id twice, and a post id that was added
C28_BatchWithRecordedAndRepeated ==
    /\ call.op = "batch"
    /\ Len(call.posts) = 3
    /\ \E i \in 1..3 : \E row \in call.before : row[2] = call.posts[i][2]
    /\ \E i, j \in 1..3 : i < j /\ call.posts[i] = call.posts[j]
                             /\ call.posts[i] \in fb_processed \ call.before

\* C29: whatever cycles overlap and in whatever order they commit, no step
\* lowers or removes the stored watermark of a chat, except the operator's
\* reset, which removes them all
C29_WatermarkNeverDecreases ==
    [][\/ chat_state' = [c \in Chats |-> None]
       \/ \A c \in Chats :
             chat_state[c] # None =>
                 /\ chat_state'[c] # None
                 /\ chat_state'[c] >= chat_state[c]]_vars

\* C30: no two cycles of one platform are in flight at the same time
C30_OneCycleInFlight ==
    \A s1, s2 \in Slots :
        (/\ s1 # s2
         /\ cy[s1].pc \notin {"idle", "done"}
         /\ cy[s2].pc \notin {"idle", "done"})
            => cy[s1].platform # cy[s2].platform

\* C31: in a cycle that dispatches items to the classifier, a watermark or a
\* processed record is written only when no chunk is in flight and no wave is
\* still to come: the cycle leaves its await only when every chunk of every
\* wave has ended, and every write is made by a cycle that is past it
C31_WritesAfterClassification ==
    /\ [](ab.pc # "idle" => \A s \in Slots : cy[s].pc \in {"idle", "classifying"})
    /\ [][/\ (chat_state' # chat_state \/ fb_processed' # fb_processed) =>
               /\ ab.pc = "idle"
               /\ \A s \in Slots : cy[s].pc # "classifying"
          /\ \A s \in Slots :
               (cy[s].pc = "classifying" /\ cy'[s].pc # "classifying") =>
                   /\ \A b \in 1..Len(ab.chunks) : ab.chunks[b].pc \in {"ok", "failed"}
                   /\ ab.group_start + MaxParallel > Len(ab.batches)]_vars

\* C31 witness: a cycle that classified its items in two waves has written
\* its watermarks
C31_CommittedAfterTwoWaves ==
    \E s \in Slots :
        /\ cy[s].pc = "done" /\ cy[s].wrote
        /\ Len(cy[s].filtered) > MaxParallel
        /\ ab.pc = "idle"

\* C32: a cycle that had the watermarks of several chats to write and has
\* ended, with or without a store failure in its commit phase, has written
\* all of them or none of them; a cycle whose commit phase failed has ended
\* as a failure
C32_AllOrNothing ==
    \A s \in Slots :
        (Ended(s) /\ cy[s].platform = "tg" /\ Len(cy[s].chats_to_update) > 1) =>
            LET updates == cy[s].chats_to_update
                advanced == {j \in 1..Len(updates) : chat_state[updates[j][1]] = updates[j][2]}
                untouched == {j \in 1..Len(updates) :
                                chat_state[updates[j][1]] = cy[s].read[updates[j][1]]}
            IN  /\ advanced = 1..Len(updates) \/ untouched = 1..Len(updates)
                /\ (cy[s].wrote /\ advanced # 1..Len(updates)) => cy[s].outcome = "error"

\* C33: at no time are more than max_parallel chunks of a call in flight
\* (calling the backend or sleeping before a retry), and a chunk of a later
\* wave has not been dispatched as long as a chunk of an earlier wave, be it
\* asleep, has not ended in success or failure
C33_WavesOfMaxParallel ==
    LET n == Len(ab.chunks)
        InFlight == {b \in 1..n : ab.chunks[b].pc \in {"calling", "sleeping"}}
        WaveOf(b) == (b - 1) \div MaxParallel
    IN  /\ Cardinality(InFlight) <= MaxParallel
        /\ \A b1, b2 \in 1..n :
              (WaveOf(b1) < WaveOf(b2) /\ ab.chunks[b2].pc # "waiting") =>
                  ab.chunks[b1].pc \in {"ok", "failed"}

\* C33 witness: a chunk of the first wave sleeps before its retry, the other
\* one has ended, and the chunk of the second wave still waits
C33_SleepingHoldsNextWave ==
    /\ ab.pc = "gather" /\ Len(ab.chunks) > MaxParallel
    /\ \E b \in 1..MaxParallel : ab.chunks[b].pc = "sleeping"
    /\ \E b \in 1..MaxParallel : ab.chunks[b].pc \in {"ok", "failed"}
    /\ ab.chunks[MaxParallel + 1].pc = "waiting"

\* C34: a call of analyze_messages_batch that has dispatched chunks returns,
\* also when the backend never answers one of them; that chunk has then
\* ended as a failed chunk and the other chunks of its wave as they would
C34_NoAnswerIsBounded ==
    /\ (ab.pc = "gather") ~> (ab.pc = "returned")
    /\ [](ab.pc = "returned" =>
            \A b \in 1..Len(ab.chunks) : ab.chunks[b].pc \in {"ok", "failed"})

\* C35: the chunks of a call are consecutive pieces of its input: joined in
\* their order they give the input, every chunk holds between 1 and
\* batch_size items and every chunk but the last holds batch_size items; an
\* empty input gives no chunk, and no call of the backend
C35_ConsecutiveChunks ==
    ab.pc # "idle" =>
        LET RECURSIVE Concat(_)
            Concat(seqs) == IF seqs = <<>> THEN <<>> ELSE Head(seqs) \o Concat(Tail(seqs))
            k == Len(ab.batches)
        IN  /\ Concat(ab.batches) = ab.texts
            /\ \A b \in 1..k : Len(ab.batches[b]) \in 1..ab.batch_size
            /\ \A b \in 1..(k - 1) : Len(ab.batches[b]) = ab.batch_size
            /\ Len(ab.chunks) = k
            /\ ab.texts = <<>> => (k = 0 /\ ab.pc = "returned")

\* C35 witness: three texts were split into a full chunk and a shorter last one
C35_ShortLastChunk ==
    /\ ab.pc = "gather" /\ ab.batch_size = 2
    /\ ab.batches = <<<<1, 2>>, <<3>>>>

\* C36: a chunk that sleeps before a retry sleeps for the interval that the
\* backend supplied in its error, for 60 seconds when it supplied none, and
\* never after the error of the last allowed attempt
C36_WaitsSuppliedInterval ==
    \A b \in 1..Len(ab.chunks) :
        LET ch == ab.chunks[b]
        IN  ch.pc = "sleeping" =>
              /\ ch.wait = (IF ch.err.retry_after # None THEN ch.err.retry_after ELSE 60)
              /\ ch.attempt < MaxRetries - 1

\* C37: a chunk counts as succeeded only when the reply of the backend was
\* empty or was parsed as a list: after a non-empty reply that is no JSON
\* list the chunk has failed
C37_UnparsableReplyFails ==
    \A b \in 1..Len(ab.chunks) :
        LET ch == ab.chunks[b]
        IN  /\ ch.pc = "ok" => ch.reply \in {"empty", "list"}
            /\ ch.reply \in {"garbage", "object"} => ch.pc = "failed"

\* C38: over any sequence of cycles, those that end after the filter without
\* a commit included, table messages holds at most one row for one Telegram
\* message
C38_OneRowPerMessage == watch \in TgItems => msg_rows.null + msg_rows.lead <= 1

\* C39: a Facebook cycle runs only with a scraper whose start() succeeded: a
\* trigger whose start() failed runs no cycle, and no later trigger runs one
\* with the scraper that failed to start
C39_CycleOnlyWithStartedScraper ==
    /\ \A s \in Slots : (cy[s].platform = "fb" /\ cy[s].pc # "idle") => fb_scraper = "started"
    /\ [][\A s \in Slots :
            (cy[s].pc = "idle" /\ cy'[s].pc # "idle" /\ cy'[s].platform = "fb")
                => fb_scraper' = "started"]_vars
====
